---- MODULE Spec2Model ----
(***************************************************************************)
(* A model of zerver/lib/narrow.py: the narrow compiler (NarrowBuilder,    *)
(* add_narrow_conditions), anchor parsing (parse_anchor_value) and the     *)
(* anchor/window pagination (limit_query_to_range,                         *)
(* post_process_limited_query, fetch_messages).                            *)
(*                                                                         *)
(* A query is modelled by the set of message ids it selects; a `where`     *)
(* keeps the rows of that set that satisfy the condition.  Three           *)
(* specifications share the variables: SpecFetch (pagination), SpecAnchor  *)
(* (anchor parsing) and SpecNarrow (narrow compilation).                   *)
(***************************************************************************)
EXTENDS Integers, Sequences, FiniteSets, TLC

VARIABLES
    pc,                       \* position of the operation being run
    \* ---- fetch_messages
    matching,                 \* ids selected by the compiled query
    anchor,                   \* resolved anchor (an integer)
    num_before,
    num_after,
    include_anchor,
    first_visible_message_id,
    rows,                     \* rows the limited query returned, ascending
    fetched,                  \* the FetchedMessages result
    client_requested_message_ids, \* the explicit id list, if one was given
    \* ---- parse_anchor_value
    anchor_val,               \* the client's anchor string (characters) or None
    use_first_unread_anchor,
    parsed,                   \* the value returned, or the error raised
    \* ---- add_narrow_conditions
    base,                     \* the query handed in
    narrow,                   \* the terms the loop has taken so far
    builder,                  \* the NarrowBuilder and the query it has built
    search_operands,
    is_search,
    \* ---- update_narrow_terms_containing_with_operator
    request_narrow,           \* the narrow handed in
    can_access,               \* whether the access check lets the requester
                              \* see a message that exists
    rewritten,                \* the narrow returned, or the error raised
    \* ---- fetch_messages, from the narrow to the queries
    fetch_narrow,             \* the narrow of the request, or None
    include_history,          \* what ok_to_include_history answered
    queries,                  \* the message queries executed, in order
    request_anchor,           \* the anchor of the request, or None
    fetched_anchor            \* the anchor of the FetchedMessages returned

vars == <<pc, matching, anchor, num_before, num_after, include_anchor,
          first_visible_message_id, rows, fetched,
          client_requested_message_ids,
          anchor_val, use_first_unread_anchor, parsed,
          base, narrow, builder, search_operands, is_search,
          request_narrow, can_access, rewritten,
          fetch_narrow, include_history, queries, request_anchor, fetched_anchor>>

narrowVars == <<base, narrow, builder, search_operands, is_search>>

fetchVars == <<matching, anchor, num_before, num_after, include_anchor,
               first_visible_message_id, rows, fetched,
               client_requested_message_ids>>

anchorVars == <<anchor_val, use_first_unread_anchor, parsed>>

withVars == <<request_narrow, can_access, rewritten>>

requestVars == <<fetch_narrow, include_history, queries, request_anchor, fetched_anchor>>

(***************************************************************************)
(* Bounds                                                                  *)
(***************************************************************************)
\* number of message ids the stored relation may hold
MaxRows == 6
\* distance between two stored message ids
IdStep == 10
\* largest num_before / num_after requested
MaxNum == 5
\* longest anchor string
MaxLen == 3
\* longest narrow compiled
MaxTerms == 2
\* longest narrow handed to the permalink pass
MaxWithTerms == 3
\* longest narrow of a fetch request
MaxRequestTerms == 3
\* num_before and num_after of a fetch request
RequestWindow == 2
\* longest narrow of a fetch request that carries a message id list
MaxListTerms == 1

Ids == {IdStep * i : i \in 1..MaxRows}

\* LARGER_THAN_MAX_MESSAGE_ID is 10000000000000000 in the source; all that the
\* code uses of it is that it is larger than every message id.  The model
\* keeps that: it is the first multiple of IdStep above every stored id.
LARGER_THAN_MAX_MESSAGE_ID == IdStep * (MaxRows + 1)

(***************************************************************************)
(* Helpers on sets and sequences of ids                                    *)
(***************************************************************************)
Max(a, b) == IF a >= b THEN a ELSE b

MaxOf(S) == CHOOSE x \in S : \A y \in S : y <= x

MinOf(S) == CHOOSE x \in S : \A y \in S : x <= y

\* ORDER BY id ASC: the ids of S as an ascending sequence
RECURSIVE OrderByAsc(_)
OrderByAsc(S) ==
    IF S = {} THEN <<>>
    ELSE LET m == MinOf(S) IN <<m>> \o OrderByAsc(S \ {m})

\* ORDER BY id DESC LIMIT n: the n largest ids of S
RECURSIVE OrderByDescLimit(_, _)
OrderByDescLimit(S, n) ==
    IF S = {} \/ n <= 0 THEN {}
    ELSE LET m == MaxOf(S) IN {m} \cup OrderByDescLimit(S \ {m}, n - 1)

\* ORDER BY id ASC LIMIT n: the n smallest ids of S
RECURSIVE OrderByAscLimit(_, _)
OrderByAscLimit(S, n) ==
    IF S = {} \/ n <= 0 THEN {}
    ELSE LET m == MinOf(S) IN {m} \cup OrderByAscLimit(S \ {m}, n - 1)

\* Python's bool used as an integer
BoolInt(b) == IF b THEN 1 ELSE 0

\* Python's s[-n:] for n > 0
LastN(s, n) == IF Len(s) <= n THEN s ELSE SubSeq(s, Len(s) - n + 1, Len(s))

\* Python's s[:n] for n > 0
FirstN(s, n) == IF Len(s) <= n THEN s ELSE SubSeq(s, 1, n)

SeqFilterLt(s, a) == SelectSeq(s, LAMBDA r : r < a)
SeqFilterEq(s, a) == SelectSeq(s, LAMBDA r : r = a)
SeqFilterGt(s, a) == SelectSeq(s, LAMBDA r : r > a)
SeqFilterGe(s, a) == SelectSeq(s, LAMBDA r : r >= a)

Range(s) == {s[i] : i \in 1..Len(s)}

(***************************************************************************)
(* limit_query_to_range                                                    *)
(***************************************************************************)
NeedBeforeQuery(nb, left) == (~left) /\ (nb > 0)

NeedAfterQuery(na, right) == (~right) /\ (na > 0)

\* mutant: the before side always stops short of the anchor
BeforeAnchor_Exclusive(nb, na, anc, incl, left, right) == anc - 1

BeforeAnchor(nb, na, anc, incl, left, right) ==
    IF NeedBeforeQuery(nb, left) /\ NeedAfterQuery(na, right)
    THEN anc - 1
    ELSE anc - BoolInt(~incl)

BeforeLimit(nb, na, incl, left, right) ==
    IF NeedBeforeQuery(nb, left) /\ NeedAfterQuery(na, right)
    THEN nb
    ELSE IF ~right THEN nb + BoolInt(incl) ELSE nb

AfterAnchor(nb, na, anc, incl, left, right, fv) ==
    IF NeedBeforeQuery(nb, left) /\ NeedAfterQuery(na, right)
    THEN Max(anc, fv)
    ELSE Max(anc + BoolInt(~incl), fv)

\* mutant: the after side fetched without the extra row for the anchor
AfterLimit_NoHeadroom(nb, na, incl, left, right) ==
    IF NeedBeforeQuery(nb, left) /\ NeedAfterQuery(na, right)
    THEN na
    ELSE na + BoolInt(incl)

AfterLimit(nb, na, incl, left, right) ==
    IF NeedBeforeQuery(nb, left) /\ NeedAfterQuery(na, right)
    THEN na + 1
    ELSE na + BoolInt(incl)

BeforeQuery(query, nb, na, anc, incl, left, right) ==
    LET where == IF ~right
                 THEN {r \in query : r <= BeforeAnchor(nb, na, anc, incl, left, right)}
                 ELSE query
    IN OrderByDescLimit(where, BeforeLimit(nb, na, incl, left, right))

AfterQuery(query, nb, na, anc, incl, left, right, fv) ==
    LET where == IF ~left
                 THEN {r \in query : r >= AfterAnchor(nb, na, anc, incl, left, right, fv)}
                 ELSE query
    IN OrderByAscLimit(where, AfterLimit(nb, na, incl, left, right))

\* The rows the limited query selects.  The two sides of the UNION ALL are
\* disjoint (ids <= anchor - 1 against ids >= anchor), so a set holds them.
LimitQueryToRange(query, nb, na, anc, incl, left, right, fv) ==
    LET before == NeedBeforeQuery(nb, left)
        after == NeedAfterQuery(na, right)
    IN IF before /\ after
       THEN BeforeQuery(query, nb, na, anc, incl, left, right)
            \cup AfterQuery(query, nb, na, anc, incl, left, right, fv)
       ELSE IF before THEN BeforeQuery(query, nb, na, anc, incl, left, right)
       ELSE IF after THEN AfterQuery(query, nb, na, anc, incl, left, right, fv)
       ELSE {r \in query : r = anc}

(***************************************************************************)
(* post_process_limited_query                                              *)
(***************************************************************************)
\* mutant: the visibility floor not applied
VisibleRows_NoFloor(rs, fv) == rs

\* mutant: the row at the floor itself cut as well
VisibleRows_AboveFloor(rs, fv) == IF fv > 0 THEN SeqFilterGe(rs, fv + 1) ELSE rs

VisibleRows(rs, fv) == IF fv > 0 THEN SeqFilterGe(rs, fv) ELSE rs

\* mutant: history_limited without the found_oldest conjunct
PostProcess_LimitedOnly(rs, nb, na0, anc, left, right, fv) ==
    LET visible_rows == VisibleRows(rs, fv)
        rows_limited == Len(visible_rows) # Len(rs)
        na == IF right THEN 0 ELSE na0
        before0 == IF right THEN visible_rows ELSE SeqFilterLt(visible_rows, anc)
        anchor_rows == IF right THEN <<>> ELSE SeqFilterEq(visible_rows, anc)
        after0 == IF right THEN <<>> ELSE SeqFilterGt(visible_rows, anc)
        before_rows == IF nb # 0 THEN LastN(before0, nb) ELSE before0
        after_rows == IF na # 0 THEN FirstN(after0, na) ELSE after0
        found_oldest == left \/ (Len(before_rows) < nb)
    IN [rows |-> before_rows \o anchor_rows \o after_rows,
        found_anchor |-> Len(anchor_rows) = 1,
        found_newest |-> right \/ (Len(after_rows) < na),
        found_oldest |-> found_oldest,
        history_limited |-> rows_limited]

\* mutant: the rows of the headroom not truncated
PostProcess_Untruncated(rs, nb, na0, anc, left, right, fv) ==
    LET visible_rows == VisibleRows(rs, fv)
        rows_limited == Len(visible_rows) # Len(rs)
        na == IF right THEN 0 ELSE na0
        before_rows == IF right THEN visible_rows ELSE SeqFilterLt(visible_rows, anc)
        anchor_rows == IF right THEN <<>> ELSE SeqFilterEq(visible_rows, anc)
        after_rows == IF right THEN <<>> ELSE SeqFilterGt(visible_rows, anc)
        found_oldest == left \/ (Len(before_rows) < nb)
    IN [rows |-> before_rows \o anchor_rows \o after_rows,
        found_anchor |-> Len(anchor_rows) = 1,
        found_newest |-> right \/ (Len(after_rows) < na),
        found_oldest |-> found_oldest,
        history_limited |-> rows_limited /\ found_oldest]

PostProcessLimitedQuery(rs, nb, na0, anc, left, right, fv) ==
    LET visible_rows == VisibleRows(rs, fv)
        rows_limited == Len(visible_rows) # Len(rs)
        na == IF right THEN 0 ELSE na0
        before0 == IF right THEN visible_rows ELSE SeqFilterLt(visible_rows, anc)
        anchor_rows == IF right THEN <<>> ELSE SeqFilterEq(visible_rows, anc)
        after0 == IF right THEN <<>> ELSE SeqFilterGt(visible_rows, anc)
        before_rows == IF nb # 0 THEN LastN(before0, nb) ELSE before0
        after_rows == IF na # 0 THEN FirstN(after0, na) ELSE after0
        found_oldest == left \/ (Len(before_rows) < nb)
    IN [rows |-> before_rows \o anchor_rows \o after_rows,
        found_anchor |-> Len(anchor_rows) = 1,
        found_newest |-> right \/ (Len(after_rows) < na),
        found_oldest |-> found_oldest,
        history_limited |-> rows_limited /\ found_oldest]

(***************************************************************************)
(* fetch_messages, on the anchor/window path                               *)
(***************************************************************************)
NoResult == [rows |-> <<>>, found_anchor |-> FALSE, found_newest |-> FALSE,
             found_oldest |-> FALSE, history_limited |-> FALSE]

AnchoredToLeft(anc) == anc = 0

\* mutant: the sentinel itself not taken as the right end
AnchoredToRight_Strict(anc) == anc > LARGER_THAN_MAX_MESSAGE_ID

AnchoredToRight(anc) == anc >= LARGER_THAN_MAX_MESSAGE_ID

\* num_after as fetch_messages passes it on
EffectiveNumAfter(anc, na) == IF AnchoredToRight(anc) THEN 0 ELSE na

(***************************************************************************)
(* parse_anchor_value                                                      *)
(***************************************************************************)
\* A string is the sequence of its characters; None is NoneVal.
NoneVal == <<"None">>
Oldest == <<"o", "l", "d", "e", "s", "t">>
Newest == <<"n", "e", "w", "e", "s", "t">>
FirstUnread == <<"f", "i", "r", "s", "t", "_", "u", "n", "r", "e", "a", "d">>

Digits == {"0", "1", "2", "3", "4", "5", "6", "7", "8", "9"}

\* the characters the anchor strings tried are made of
Alphabet == {"0", "5", "9", "-", "+", " ", "x"}

DigitVal(c) ==
    CASE c = "0" -> 0 [] c = "1" -> 1 [] c = "2" -> 2 [] c = "3" -> 3
      [] c = "4" -> 4 [] c = "5" -> 5 [] c = "6" -> 6 [] c = "7" -> 7
      [] c = "8" -> 8 [] c = "9" -> 9

RECURSIVE StripLeft(_)
StripLeft(s) == IF Len(s) > 0 /\ Head(s) = " " THEN StripLeft(Tail(s)) ELSE s

RECURSIVE StripRight(_)
StripRight(s) ==
    IF Len(s) > 0 /\ s[Len(s)] = " " THEN StripRight(SubSeq(s, 1, Len(s) - 1)) ELSE s

RECURSIVE DigitsValue(_, _)
DigitsValue(s, acc) ==
    IF s = <<>> THEN acc ELSE DigitsValue(Tail(s), 10 * acc + DigitVal(Head(s)))

\* Python's int(str): surrounding whitespace is dropped, then an optional
\* sign, then one or more decimal digits; anything else is a ValueError.
PyInt(s) ==
    LET t == StripRight(StripLeft(s))
        signed == Len(t) > 0 /\ Head(t) \in {"-", "+"}
        body == IF signed THEN Tail(t) ELSE t
        ok == Len(body) > 0 /\ \A i \in 1..Len(body) : body[i] \in Digits
    IN IF ~ok THEN [ok |-> FALSE, val |-> 0]
       ELSE [ok |-> TRUE,
             val |-> IF signed /\ Head(t) = "-"
                     THEN 0 - DigitsValue(body, 0)
                     ELSE DigitsValue(body, 0)]

ReturnInt(v) == [kind |-> "int", val |-> v, error |-> "none"]
ReturnNone == [kind |-> "None", val |-> 0, error |-> "none"]
RaiseJsonableError(msg) == [kind |-> "raise", val |-> 0, error |-> msg]
NotParsed == [kind |-> "pending", val |-> 0, error |-> "none"]

\* mutant: the integer returned without clamping
ParseAnchorValue_NoClamp(val, first_unread) ==
    IF first_unread THEN ReturnNone
    ELSE IF val = NoneVal THEN RaiseJsonableError("Missing 'anchor' argument.")
    ELSE IF val = Oldest THEN ReturnInt(0)
    ELSE IF val = Newest THEN ReturnInt(LARGER_THAN_MAX_MESSAGE_ID)
    ELSE IF val = FirstUnread THEN ReturnNone
    ELSE LET n == PyInt(val)
         IN IF ~n.ok THEN RaiseJsonableError("Invalid anchor")
            ELSE ReturnInt(n.val)

ParseAnchorValue(val, first_unread) ==
    IF first_unread THEN ReturnNone
    ELSE IF val = NoneVal THEN RaiseJsonableError("Missing 'anchor' argument.")
    ELSE IF val = Oldest THEN ReturnInt(0)
    ELSE IF val = Newest THEN ReturnInt(LARGER_THAN_MAX_MESSAGE_ID)
    ELSE IF val = FirstUnread THEN ReturnNone
    ELSE LET n == PyInt(val)
         IN IF ~n.ok THEN RaiseJsonableError("Invalid anchor")
            ELSE IF n.val < 0 THEN ReturnInt(0)
            ELSE IF n.val > LARGER_THAN_MAX_MESSAGE_ID
                 THEN ReturnInt(LARGER_THAN_MAX_MESSAGE_ID)
            ELSE ReturnInt(n.val)

(***************************************************************************)
(* The message store the narrow compiler is run against.                   *)
(*                                                                         *)
(* The requester is "me", an authenticated, non-guest member of realm      *)
(* "zulip", which is not a Zephyr mirror realm; is_web_public_query is     *)
(* False.  Every column the conditions read is NOT NULL.                   *)
(***************************************************************************)
Requester == "me"
RequesterRealm == "zulip"
RequesterIsGuest == FALSE
RequesterCanAccessPublicStreams == TRUE
RequesterRecursiveGroups == {"members"}

\* UserProfile: email -> personal recipient; "nobody" is no user
Users == {"me", "u2", "u3", "u4"}
PersonalRecipient(u) ==
    CASE u = "me" -> "p_me" [] u = "u2" -> "p_u2" [] u = "u3" -> "p_u3"
      [] u = "u4" -> "p_u4"

\* zerver_stream
Streams ==
    { [name |-> "pub", realm |-> "zulip", recipient |-> "s_pub",
       invite_only |-> FALSE, is_web_public |-> FALSE, is_in_zephyr_realm |-> FALSE,
       can_subscribe_group |-> "nobody_group", can_add_subscribers_group |-> "nobody_group"],
      [name |-> "web", realm |-> "zulip", recipient |-> "s_web",
       invite_only |-> FALSE, is_web_public |-> TRUE, is_in_zephyr_realm |-> FALSE,
       can_subscribe_group |-> "nobody_group", can_add_subscribers_group |-> "nobody_group"],
      [name |-> "priv", realm |-> "zulip", recipient |-> "s_priv",
       invite_only |-> TRUE, is_web_public |-> FALSE, is_in_zephyr_realm |-> FALSE,
       can_subscribe_group |-> "nobody_group", can_add_subscribers_group |-> "nobody_group"],
      [name |-> "left", realm |-> "zulip", recipient |-> "s_left",
       invite_only |-> TRUE, is_web_public |-> FALSE, is_in_zephyr_realm |-> FALSE,
       can_subscribe_group |-> "nobody_group", can_add_subscribers_group |-> "nobody_group"],
      [name |-> "team", realm |-> "zulip", recipient |-> "s_team",
       invite_only |-> TRUE, is_web_public |-> FALSE, is_in_zephyr_realm |-> FALSE,
       can_subscribe_group |-> "members", can_add_subscribers_group |-> "nobody_group"],
      [name |-> "elsewhere", realm |-> "other", recipient |-> "s_else",
       invite_only |-> FALSE, is_web_public |-> FALSE, is_in_zephyr_realm |-> FALSE,
       can_subscribe_group |-> "nobody_group", can_add_subscribers_group |-> "nobody_group"] }

StreamRecipients == {st.recipient : st \in Streams}

\* zerver_subscription: active subscriptions, as <<user, recipient>>
Subscriptions ==
    { <<"me", "s_pub">>, <<"me", "s_priv">>, <<"me", "g_me23">>,
      <<"u2", "s_pub">>, <<"u2", "g_me23">>, <<"u2", "g_23">>,
      <<"u3", "g_me23">>, <<"u3", "g_23">>, <<"u3", "s_left">> }

\* DirectMessageGroup: the recipient of a set of three or more users
DirectMessageGroups == { [users |-> {"me", "u2", "u3"}, recipient |-> "g_me23"],
                         [users |-> {"u2", "u3", "u4"}, recipient |-> "g_23"] }

GroupRecipients == {g.recipient : g \in DirectMessageGroups}

\* zerver_message joined with the requester's zerver_usermessage row (um says
\* whether there is one; flags are that row's), with the reaction table
\* (has_reaction) and with the topic's resolved / followed state.  A text is
\* a sequence of symbols: words, the space SP and the double quote QUOTE.
\* content is the text of the message, topic_text the searchable text of its
\* topic, words the lexemes of both (search_tsvector).
SP == " "

QUOTE == "\""

Lexemes(text) == {text[i] : i \in DOMAIN text} \ {SP, QUOTE}

Msg(i, realm, sender, recipient, topic, um, flags, link, reaction, followed, content, topic_text) ==
    [id |-> i, realm |-> realm, sender |-> sender, recipient |-> recipient,
     topic |-> topic, um |-> um, flags |-> flags, has_link |-> link,
     has_reaction |-> reaction, followed |-> followed,
     words |-> Lexemes(content) \cup Lexemes(topic_text),
     content |-> content, topic_text |-> topic_text]

Messages ==
    { Msg(1, "zulip", "u2", "s_pub", "t1", TRUE, {"read"}, TRUE, FALSE, TRUE,
          <<"foo", SP, "bar", SP, "baz">>, <<>>),
      Msg(2, "zulip", "me", "s_pub", "t2", TRUE, {"starred"}, FALSE, TRUE, FALSE,
          <<"foo">>, <<>>),
      Msg(3, "zulip", "u3", "s_priv", "t1", TRUE, {"mentioned"}, FALSE, FALSE, FALSE,
          <<"baz", SP, "bar">>, <<>>),
      Msg(4, "zulip", "u2", "s_web", "RESOLVED t1", FALSE, {}, FALSE, FALSE, FALSE,
          <<"foo">>, <<"bar", SP, "baz">>),
      Msg(5, "zulip", "u2", "p_me", "", TRUE, {"is_private"}, FALSE, FALSE, FALSE,
          <<"foo">>, <<>>),
      Msg(6, "zulip", "me", "p_u2", "", TRUE, {"is_private", "read"}, TRUE, FALSE, FALSE,
          <<"bar", SP, "baz">>, <<>>),
      Msg(7, "zulip", "me", "p_me", "", TRUE, {"is_private", "read"}, FALSE, FALSE, FALSE,
          <<>>, <<>>),
      Msg(8, "zulip", "u3", "g_me23", "", TRUE, {"is_private", "has_alert_word"},
          FALSE, TRUE, FALSE, <<"baz", SP, "foo", SP, "bar">>, <<>>),
      Msg(9, "zulip", "u3", "p_me", "", TRUE, {"is_private", "starred", "read"},
          FALSE, FALSE, FALSE, <<"baz">>, <<>>),
      Msg(10, "zulip", "u3", "s_pub", "quiet", TRUE, {}, FALSE, FALSE, FALSE,
          <<"foo">>, <<>>),
      Msg(11, "other", "u4", "s_else", "t1", FALSE, {}, FALSE, FALSE, FALSE,
          <<"foo">>, <<>>),
      Msg(12, "zulip", "u2", "p_u3", "", FALSE, {}, FALSE, FALSE, FALSE,
          <<"foo">>, <<>>),
      Msg(13, "zulip", "u3", "s_left", "t1", TRUE, {"read"}, FALSE, FALSE, FALSE,
          <<"foo">>, <<>>),
      Msg(14, "zulip", "u2", "s_team", "RESOLVED t2", TRUE, {}, FALSE, FALSE, TRUE,
          <<"bar">>, <<>>),
      Msg(15, "zulip", "u2", "s_web", "t1", TRUE, {"read", "mentioned"}, TRUE, TRUE, FALSE,
          <<"foo">>, <<"bar", SP, "baz">>) }

MessageIds == {m.id : m \in Messages}

Row(i) == CHOOSE m \in Messages : m.id = i

\* get_resolved_topic_condition_sa: the topic carries the resolved prefix
ResolvedTopic(m) == m.topic \in {"RESOLVED t1", "RESOLVED t2"}

(***************************************************************************)
(* get_base_query_for_search                                               *)
(***************************************************************************)
StreamOfRecipient(r) == CHOOSE st \in Streams : st.recipient = r

UserRecursiveGroupIds == IF ~RequesterIsGuest THEN RequesterRecursiveGroups ELSE {}

\* mutant: the per-user row alone grants access
BaseAccessCondition_AnyRow(m) == TRUE

BaseAccessCondition(m) ==
    \/ m.recipient \notin StreamRecipients
    \/ LET st == StreamOfRecipient(m.recipient)
       IN \/ (~st.invite_only /\ ~st.is_in_zephyr_realm /\ RequesterCanAccessPublicStreams)
          \/ st.can_subscribe_group \in UserRecursiveGroupIds
          \/ st.can_add_subscribers_group \in UserRecursiveGroupIds
    \/ <<Requester, m.recipient>> \in Subscriptions

GetBaseQueryForSearch(need_user_message) ==
    IF ~need_user_message
    THEN {m.id : m \in {x \in Messages : x.realm = RequesterRealm}}
    ELSE {m.id : m \in {x \in Messages : x.um /\ BaseAccessCondition(x)}}


(***************************************************************************)
(* Collaborators of NarrowBuilder: lookups by operand                      *)
(***************************************************************************)
\* get_stream_by_narrow_operand_access_unchecked(operand, realm)
ChannelExists(operand) ==
    \E st \in Streams : st.name = operand /\ st.realm = RequesterRealm

ChannelByOperand(operand) ==
    CHOOSE st \in Streams : st.name = operand /\ st.realm = RequesterRealm

\* get_public_streams_queryset / get_web_public_streams_queryset
PublicStreamRecipients ==
    {st.recipient : st \in {x \in Streams : x.realm = RequesterRealm /\ ~x.invite_only}}

WebPublicStreamRecipients ==
    {st.recipient : st \in {x \in Streams : x.realm = RequesterRealm /\ x.is_web_public}}

\* get_user_including_cross_realm
UserExists(operand) == operand \in Users

\* get_user_profiles / get_user_profiles_by_ids: the users an operand of dm
\* names.  "[]" is the empty id list; an operand naming "nobody" is rejected.
DmOperandKnown(operand) == operand \in {"u2", "me", "u2,u3", "u3,u4", "[]"}

DmOperandUsers(operand) ==
    CASE operand = "u2" -> {"u2"}
      [] operand = "me" -> {"me"}
      [] operand = "u2,u3" -> {"u2", "u3"}
      [] operand = "u3,u4" -> {"u3", "u4"}
      [] OTHER -> {}

\* recipient_for_user_profiles(..., sender=requester, create=False): the
\* conversation of the named users and the requester
DmGroupExists(users) ==
    \E g \in DirectMessageGroups : g.users = users \cup {Requester}

DmRecipient(users) ==
    IF Cardinality(users \cup {Requester}) > 2
    THEN (CHOOSE g \in DirectMessageGroups : g.users = users \cup {Requester}).recipient
    ELSE IF users = {Requester} THEN PersonalRecipient(Requester)
    ELSE PersonalRecipient(CHOOSE u \in users : u # Requester)

\* Message ids as operands of id: str(operand).isdigit() and the value
IdOperandIsDigit(operand) == operand \in {"5", "99999999999"}

IdOperandTooLarge(operand) == operand = "99999999999"

IdOperandValue(operand) == IF operand = "5" THEN 5 ELSE 0

\* the text of a search operand
SearchText(operand) ==
    CASE operand = "foo" -> <<"foo">>
      [] operand = "\"bar baz\"" -> <<QUOTE, "bar", SP, "baz", QUOTE>>
      [] operand = "\"bar" -> <<QUOTE, "bar">>
      [] operand = "baz\"" -> <<"baz", QUOTE>>
      [] OTHER -> <<>>

\* " ".join(search_operands)
RECURSIVE JoinedText(_)
JoinedText(operands) ==
    IF operands = <<>> THEN <<>>
    ELSE IF Len(operands) = 1 THEN SearchText(operands[1])
    ELSE SearchText(operands[1]) \o <<SP>> \o JoinedText(Tail(operands))

\* where "[^"]+" matches from the quote at i: the position of the next quote,
\* if there is one and something lies between; 0 if it does not match
QuotedEnd(text, i) ==
    LET later == {j \in (i + 1)..Len(text) : text[j] = QUOTE}
    IN IF later = {} THEN 0
       ELSE LET j == CHOOSE x \in later : \A y \in later : x <= y
            IN IF j = i + 1 THEN 0 ELSE j

\* where \S+ ends that starts at i
TermEnd(text, i) ==
    LET spaces == {j \in i..Len(text) : text[j] = SP}
    IN IF spaces = {} THEN Len(text)
       ELSE (CHOOSE x \in spaces : \A y \in spaces : x <= y) - 1

\* re.findall(r'"[^"]+"|\S+', operand) from position i on
RECURSIVE FindAll(_, _)
FindAll(text, i) ==
    IF i > Len(text) THEN <<>>
    ELSE IF text[i] = QUOTE /\ QuotedEnd(text, i) # 0
    THEN <<SubSeq(text, i, QuotedEnd(text, i))>> \o FindAll(text, QuotedEnd(text, i) + 1)
    ELSE IF text[i] # SP
    THEN <<SubSeq(text, i, TermEnd(text, i))>> \o FindAll(text, TermEnd(text, i) + 1)
    ELSE FindAll(text, i + 1)

\* the terms that begin and end with a quote, without their first and last
\* symbol
QuotedPhrases(text) ==
    LET terms == FindAll(text, 1)
    IN {SubSeq(terms[k], 2, Len(terms[k]) - 1) :
           k \in {x \in DOMAIN terms : terms[x][1] = QUOTE /\ terms[x][Len(terms[x])] = QUOTE}}

\* text ILIKE %phrase%
ILike(text, phrase) ==
    \E k \in 0..(Len(text) - Len(phrase)) : SubSeq(text, k + 1, k + Len(phrase)) = phrase

\* exclude_stream_and_topic_mutes: what the requester has muted, if anything
MutedStreamRecipients(has_mutes) == IF has_mutes THEN {"s_priv"} ELSE {}

MutedTopics(has_mutes) == IF has_mutes THEN {<<"s_pub", "quiet">>} ELSE {}

\* exclude_muting_conditions(user, narrow) for a narrow naming no channel:
\* whether the list of conditions is non-empty, and their conjunction
HasMutingConditions(has_mutes) ==
    MutedStreamRecipients(has_mutes) # {} \/ MutedTopics(has_mutes) # {}

MutingConditions(m, has_mutes) ==
    /\ m.recipient \notin MutedStreamRecipients(has_mutes)
    /\ <<m.recipient, m.topic>> \notin MutedTopics(has_mutes)

(***************************************************************************)
(* NarrowBuilder                                                           *)
(***************************************************************************)
NoError == [class |-> "none", desc |-> ""]

BadNarrowOperatorError(desc) == [class |-> "BadNarrowOperatorError", desc |-> desc]

InvalidOperatorCombinationError(desc) ==
    [class |-> "InvalidOperatorCombinationError", desc |-> desc]

\* NarrowBuilder.__init__ over a query
NewBuilder(query, has_mutes, pgroonga) ==
    [query |-> query, is_channel_narrow |-> FALSE, is_dm_narrow |-> FALSE,
     raised |-> NoError, user_has_mutes |-> has_mutes, using_pgroonga |-> pgroonga]

Raise(b, error) == [b EXCEPT !.raised = error]

\* a `where` that ORs the condition in instead of ANDing it
Where_Widening(b, cond, negated) ==
    [b EXCEPT !.query = b.query \cup {m.id : m \in {x \in cond : ~negated}}]

\* query.where(maybe_negate(cond)); cond is the set of rows the condition is
\* true of
Where(b, cond, negated) ==
    [b EXCEPT !.query = {i \in b.query : (Row(i) \in cond) # negated}]

\* by_method_map: operator name -> method
ByMethodMap(operator) ==
    CASE operator = "has" -> "by_has"
      [] operator = "in" -> "by_in"
      [] operator = "is" -> "by_is"
      [] operator \in {"channel", "stream"} -> "by_channel"
      [] operator \in {"channels", "streams"} -> "by_channels"
      [] operator = "topic" -> "by_topic"
      [] operator = "sender" -> "by_sender"
      [] operator = "near" -> "by_near"
      [] operator = "id" -> "by_id"
      [] operator = "search" -> "by_search"
      [] operator \in {"dm", "pm-with", "pm_with"} -> "by_dm"
      [] operator = "dm-including" -> "by_dm_including"
      [] operator \in {"group-pm-with", "group_pm_with"} -> "by_group_pm_with"
      [] OTHER -> "none"

\* the check without its early return for negated terms
CheckNotBoth_IgnoresNegation(b, negated, is_dm_narrow, is_channel_narrow) ==
    LET dm == b.is_dm_narrow \/ is_dm_narrow
        ch == b.is_channel_narrow \/ is_channel_narrow
        marked == [b EXCEPT !.is_dm_narrow = dm, !.is_channel_narrow = ch]
    IN IF ch /\ dm
       THEN [marked EXCEPT !.raised = [class |-> "BadNarrowOperatorError",
                desc |-> "No message can be both a channel message and direct message"]]
       ELSE marked

\* check_not_both_channel_and_dm_narrow; negated says maybe_negate is not_
CheckNotBothChannelAndDmNarrow(b, negated, is_dm_narrow, is_channel_narrow) ==
    IF negated THEN b
    ELSE LET dm == b.is_dm_narrow \/ is_dm_narrow
             ch == b.is_channel_narrow \/ is_channel_narrow
             marked == [b EXCEPT !.is_dm_narrow = dm, !.is_channel_narrow = ch]
         IN IF ch /\ dm
            THEN Raise(marked, BadNarrowOperatorError(
                     "No message can be both a channel message and direct message"))
            ELSE marked

IsChannelMessage(m) == m.recipient \in StreamRecipients

FlagSet(m, flag) == flag \in m.flags

ByHas(b, operand, negated) ==
    IF operand \notin {"attachment", "image", "link", "reaction"}
    THEN Raise(b, BadNarrowOperatorError("unknown 'has' operand"))
    ELSE IF operand = "reaction"
    THEN Where(b, {m \in Messages : m.has_reaction}, negated)
    ELSE Where(b, {m \in Messages : m.has_link}, negated)

\* mutant: in:home applied without maybe_negate
ByIn_HomeNeverNegated(b, operand, negated) ==
    IF operand = "home"
    THEN Where(b, {m \in Messages : MutingConditions(m, b.user_has_mutes)}, FALSE)
    ELSE IF operand = "all" THEN b
    ELSE Raise(b, BadNarrowOperatorError("unknown 'in' operand"))

ByIn(b, operand, negated) ==
    IF operand = "home"
    THEN IF HasMutingConditions(b.user_has_mutes)
         THEN Where(b, {m \in Messages : MutingConditions(m, b.user_has_mutes)}, negated)
         ELSE Where(b, {m \in Messages : TRUE}, negated)
    ELSE IF operand = "all" THEN b
    ELSE Raise(b, BadNarrowOperatorError("unknown 'in' operand"))

ByIs(b, operand, negated) ==
    IF operand = "resolved" THEN Where(b, {m \in Messages : ResolvedTopic(m)}, negated)
    ELSE IF operand \in {"dm", "private"}
    THEN LET checked == IF negated
                        THEN CheckNotBothChannelAndDmNarrow(b, FALSE, FALSE, TRUE)
                        ELSE CheckNotBothChannelAndDmNarrow(b, negated, TRUE, FALSE)
         IN IF checked.raised # NoError THEN checked
            ELSE Where(checked, {m \in Messages : FlagSet(m, "is_private")}, negated)
    ELSE IF operand = "starred"
    THEN Where(b, {m \in Messages : FlagSet(m, "starred")}, negated)
    ELSE IF operand = "unread"
    THEN Where(b, {m \in Messages : ~FlagSet(m, "read")}, negated)
    ELSE IF operand = "mentioned"
    THEN Where(b, {m \in Messages : FlagSet(m, "mentioned")}, negated)
    ELSE IF operand = "alerted"
    THEN Where(b, {m \in Messages : FlagSet(m, "has_alert_word")}, negated)
    ELSE IF operand = "followed"
    THEN Where(b, {m \in Messages : m.followed}, negated)
    ELSE IF operand = "muted"
    THEN IF HasMutingConditions(b.user_has_mutes)
         THEN Where(b, {m \in Messages : ~MutingConditions(m, b.user_has_mutes)}, negated)
         ELSE Where(b, {m \in Messages : FALSE}, negated)
    ELSE Raise(b, BadNarrowOperatorError("unknown 'is' operand"))

ByChannel(b, operand, negated) ==
    LET checked == CheckNotBothChannelAndDmNarrow(b, negated, FALSE, TRUE)
    IN IF checked.raised # NoError THEN checked
       ELSE IF ~ChannelExists(operand)
       THEN Raise(checked, BadNarrowOperatorError("unknown channel"))
       ELSE Where(checked,
                  {m \in Messages : m.recipient = ChannelByOperand(operand).recipient},
                  negated)

ByChannels(b, operand, negated) ==
    LET checked == CheckNotBothChannelAndDmNarrow(b, negated, FALSE, TRUE)
    IN IF checked.raised # NoError THEN checked
       ELSE IF operand = "public"
       THEN Where(checked, {m \in Messages : m.recipient \in PublicStreamRecipients}, negated)
       ELSE IF operand = "web-public"
       THEN Where(checked, {m \in Messages : m.recipient \in WebPublicStreamRecipients}, negated)
       ELSE Raise(checked, BadNarrowOperatorError("unknown channels operand"))

ByTopic(b, operand, negated) ==
    LET checked == CheckNotBothChannelAndDmNarrow(b, negated, FALSE, TRUE)
    IN IF checked.raised # NoError THEN checked
       ELSE Where(checked, {m \in Messages : m.topic = operand}, negated)

BySender(b, operand, negated) ==
    IF ~UserExists(operand) THEN Raise(b, BadNarrowOperatorError("unknown user"))
    ELSE Where(b, {m \in Messages : m.sender = operand}, negated)

ByNear(b, operand, negated) == b

ById(b, operand, negated) ==
    IF ~IdOperandIsDigit(operand) \/ IdOperandTooLarge(operand)
    THEN Raise(b, BadNarrowOperatorError("Invalid message ID"))
    ELSE Where(b, {m \in Messages : m.id = IdOperandValue(operand)}, negated)

ByDm(b, operand, negated) ==
    LET checked == CheckNotBothChannelAndDmNarrow(b, negated, TRUE, FALSE)
        users == DmOperandUsers(operand)
    IN IF checked.raised # NoError THEN checked
       ELSE IF ~DmOperandKnown(operand)
       THEN Raise(checked, BadNarrowOperatorError("unknown user in"))
       ELSE IF users = {} THEN Where(checked, {m \in Messages : FALSE}, negated)
       ELSE IF Cardinality(users \cup {Requester}) > 2
       THEN IF ~DmGroupExists(users)
            THEN Where(checked, {m \in Messages : FALSE}, negated)
            ELSE Where(checked, {m \in Messages : m.recipient = DmRecipient(users)}, negated)
       ELSE IF \E u \in users : u # Requester
       THEN LET other == CHOOSE u \in users : u # Requester
            IN Where(checked,
                     {m \in Messages : /\ FlagSet(m, "is_private")
                                /\ m.realm = RequesterRealm
                                /\ \/ (m.sender = other
                                       /\ m.recipient = PersonalRecipient(Requester))
                                   \/ (m.sender = Requester
                                       /\ m.recipient = DmRecipient(users))},
                     negated)
       ELSE Where(checked,
                  {m \in Messages : /\ FlagSet(m, "is_private")
                             /\ m.realm = RequesterRealm
                             /\ m.sender = Requester
                             /\ m.recipient = DmRecipient(users)},
                  negated)

\* _get_direct_message_group_recipients
DirectMessageGroupRecipients(other) ==
    {r \in GroupRecipients : <<Requester, r>> \in Subscriptions
                             /\ <<other, r>> \in Subscriptions}

ByDmIncluding(b, operand, negated) ==
    LET checked == CheckNotBothChannelAndDmNarrow(b, negated, TRUE, FALSE)
    IN IF checked.raised # NoError THEN checked
       ELSE IF ~UserExists(operand)
       THEN Raise(checked, BadNarrowOperatorError("unknown user"))
       ELSE IF operand = Requester
       THEN Where(checked, {m \in Messages : FlagSet(m, "is_private")}, negated)
       ELSE Where(checked,
                  {m \in Messages : /\ FlagSet(m, "is_private")
                             /\ m.realm = RequesterRealm
                             /\ \/ (m.sender = operand
                                    /\ m.recipient = PersonalRecipient(Requester))
                                \/ (m.sender = Requester
                                    /\ m.recipient = PersonalRecipient(operand))
                                \/ m.recipient \in DirectMessageGroupRecipients(operand)},
                  negated)

ByGroupPmWith(b, operand, negated) ==
    LET checked == CheckNotBothChannelAndDmNarrow(b, negated, TRUE, FALSE)
    IN IF checked.raised # NoError THEN checked
       ELSE IF ~UserExists(operand)
       THEN Raise(checked, BadNarrowOperatorError("unknown user"))
       ELSE Where(checked,
                  {m \in Messages : /\ FlagSet(m, "is_private")
                             /\ m.realm = RequesterRealm
                             /\ m.recipient \in DirectMessageGroupRecipients(operand)},
                  negated)

\* A search operand is the sequence of the operands joined with " ": its
\* lexemes, and its quoted phrases
JoinedWords(operands) == Lexemes(JoinedText(operands))

JoinedPhrases(operands) == QuotedPhrases(JoinedText(operands))

\* content ILIKE %phrase% OR (topic ILIKE %phrase% AND is_channel_message)
PhraseCondition(m, phrase) ==
    ILike(m.content, phrase) \/ (ILike(m.topic_text, phrase) /\ IsChannelMessage(m))

\* search_tsvector @@ plainto_tsquery(operand): every lexeme is present
TsvectorCondition(m, operands) == JoinedWords(operands) \subseteq m.words

\* search_pgroonga &@~ operand: every keyword and every quoted phrase is present
PgroongaCondition(m, operands) ==
    /\ JoinedWords(operands) \subseteq m.words
    /\ \A ph \in JoinedPhrases(operands) : ILike(m.content, ph) \/ ILike(m.topic_text, ph)

BySearchPgroonga(b, operands, negated) ==
    Where(b, {m \in Messages : PgroongaCondition(m, operands)}, negated)

\* mutant: the where on the tsvector alone
BySearchTsearch_NoPhrases(b, operands, negated) ==
    Where(b, {m \in Messages : TsvectorCondition(m, operands)}, negated)

\* one where per quoted phrase, then the where on the tsvector
BySearchTsearch(b, operands, negated) ==
    LET phrased == Where(b, {m \in Messages : \A ph \in JoinedPhrases(operands) :
                                           PhraseCondition(m, ph) # negated},
                         FALSE)
    IN Where(phrased, {m \in Messages : TsvectorCondition(m, operands)}, negated)

BySearch(b, operands, negated) ==
    IF b.using_pgroonga THEN BySearchPgroonga(b, operands, negated)
    ELSE BySearchTsearch(b, operands, negated)

\* A term is [operator, operand, negated]; the operand of a search term
\* handed to add_term is one operand or the join of several.
AddTermOperand(b, operator, operand, negated) ==
    LET method == ByMethodMap(operator)
    IN CASE method = "none" -> Raise(b, BadNarrowOperatorError("unknown operator"))
         [] method = "by_has" -> ByHas(b, operand, negated)
         [] method = "by_in" -> ByIn(b, operand, negated)
         [] method = "by_is" -> ByIs(b, operand, negated)
         [] method = "by_channel" -> ByChannel(b, operand, negated)
         [] method = "by_channels" -> ByChannels(b, operand, negated)
         [] method = "by_topic" -> ByTopic(b, operand, negated)
         [] method = "by_sender" -> BySender(b, operand, negated)
         [] method = "by_near" -> ByNear(b, operand, negated)
         [] method = "by_id" -> ById(b, operand, negated)
         [] method = "by_search" -> BySearch(b, <<operand>>, negated)
         [] method = "by_dm" -> ByDm(b, operand, negated)
         [] method = "by_dm_including" -> ByDmIncluding(b, operand, negated)
         [] method = "by_group_pm_with" -> ByGroupPmWith(b, operand, negated)

AddTerm(b, term) == AddTermOperand(b, term.operator, term.operand, term.negated)


(***************************************************************************)
(* add_narrow_conditions                                                   *)
(***************************************************************************)
Term(operator, operand, negated) ==
    [operator |-> operator, operand |-> operand, negated |-> negated]

\* the operator/operand pairs tried, each plain and negated
TermShapes ==
    ({"has"} \X {"link", "reaction", "bogus"})
    \cup ({"in"} \X {"home", "all", "bogus"})
    \cup ({"is"} \X {"resolved", "dm", "starred", "unread", "followed", "muted", "bogus"})
    \cup ({"channel"} \X {"pub", "priv", "nochan"})
    \cup ({"stream"} \X {"web"})
    \cup ({"channels"} \X {"public", "web-public", "bogus"})
    \cup ({"topic"} \X {"t1"})
    \cup ({"sender"} \X {"u2", "nobody"})
    \cup ({"near"} \X {"5"})
    \cup ({"id"} \X {"5", "abc", "99999999999"})
    \cup ({"dm"} \X {"u2", "me", "u2,u3", "u3,u4", "[]", "nobody"})
    \cup ({"dm-including"} \X {"me", "u2", "nobody"})
    \cup ({"group-pm-with"} \X {"u2", "nobody"})
    \cup ({"search"} \X {"foo", "\"bar baz\"", "\"bar", "baz\""})
    \cup ({"bogus"} \X {"x"})

Terms == {Term(sh[1], sh[2], neg) : sh \in TermShapes, neg \in BOOLEAN}

\* the loop's state: the builder and the search operands set aside
LoopState(b, operands, searching) ==
    [builder |-> b, search_operands |-> operands, is_search |-> searching]

\* one iteration of `for term in narrow`
LoopStep(st, term) ==
    IF term.operator = "search"
    THEN [st EXCEPT !.search_operands = Append(st.search_operands, term.operand)]
    ELSE [st EXCEPT !.builder = AddTerm(st.builder, term)]

\* after the loop: the search operands joined into one term, not negated
AfterLoop(st) ==
    IF st.search_operands # <<>>
    THEN [st EXCEPT !.is_search = TRUE,
                    !.builder = BySearch(st.builder, st.search_operands, FALSE)]
    ELSE st

RECURSIVE RunLoop(_, _)
RunLoop(st, terms) ==
    IF terms = <<>> \/ st.builder.raised # NoError THEN st
    ELSE RunLoop(LoopStep(st, Head(terms)), Tail(terms))

\* add_narrow_conditions(query, narrow) with a fresh builder
AddNarrowConditions(query, terms, has_mutes, pgroonga) ==
    LET looped == RunLoop(LoopState(NewBuilder(query, has_mutes, pgroonga), <<>>, FALSE),
                          terms)
    IN IF looped.builder.raised # NoError THEN looped ELSE AfterLoop(looped)

(***************************************************************************)
(* can_narrow_define_conversation and                                      *)
(* update_narrow_terms_containing_with_operator                            *)
(***************************************************************************)
\* the loop of can_narrow_define_conversation from term i on
RECURSIVE DefineConversationFrom(_, _, _, _)
DefineConversationFrom(terms, i, contains_channel_term, contains_topic_term) ==
    IF i > Len(terms) THEN FALSE
    ELSE IF terms[i].operator \in {"dm", "pm-with"} THEN TRUE
    ELSE LET ch == contains_channel_term \/ terms[i].operator \in {"stream", "channel"}
             tp == contains_topic_term \/ terms[i].operator = "topic"
         IN IF ch /\ tp THEN TRUE ELSE DefineConversationFrom(terms, i + 1, ch, tp)

CanNarrowDefineConversation(terms) == DefineConversationFrom(terms, 1, FALSE, FALSE)

\* int(with_term.operand): the operands tried and the ids they denote;
\* any other operand raises ValueError
WithOperandIsInt(operand) == operand \in {"1", "5", "6", "7", "8", "99"}

WithOperandValue(operand) ==
    CASE operand = "1" -> 1 [] operand = "5" -> 5 [] operand = "6" -> 6
      [] operand = "7" -> 7 [] operand = "8" -> 8 [] operand = "99" -> 99

\* access_message: a message that does not exist is never accessible; one
\* that exists is accessible or not as the access check decides
AccessMessage(message_id, accessible) == accessible /\ message_id \in MessageIds

\* message.recipient.type
RecipientType(r) ==
    CASE r \in StreamRecipients -> "STREAM"
      [] r \in GroupRecipients -> "DIRECT_MESSAGE_GROUP"
      [] OTHER -> "PERSONAL"

\* message.recipient.type_id of a personal recipient: the user it belongs to
PersonalTypeId(r) == CHOOSE u \in Users : PersonalRecipient(u) = r

\* get_direct_message_group_user_ids, written as a dm operand
DirectMessageGroupUserIds(r) ==
    LET users == (CHOOSE g \in DirectMessageGroups : g.recipient = r).users
    IN CASE users = {"me", "u2", "u3"} -> "me,u2,u3"
         [] users = {"u2", "u3", "u4"} -> "u2,u3,u4"

\* list.remove: the list without the first element equal to x
RECURSIVE ListRemove(_, _)
ListRemove(terms, x) ==
    IF terms = <<>> THEN <<>>
    ELSE IF Head(terms) = x THEN Tail(terms)
    ELSE <<Head(terms)>> \o ListRemove(Tail(terms), x)

NotRewritten == [kind |-> "pending", narrow |-> <<>>, raised |-> NoError, lookups |-> 0]

ReturnNarrow(terms, lookups) ==
    [kind |-> "returned", narrow |-> terms, raised |-> NoError, lookups |-> lookups]

RaiseWith(error, lookups) ==
    [kind |-> "raised", narrow |-> <<>>, raised |-> error, lookups |-> lookups]

\* the terms that replace the conversation terms of the narrow
ConversationTerms(message) ==
    CASE RecipientType(message.recipient) = "STREAM" ->
           << [operator |-> "channel", negated |-> FALSE,
               operand |-> StreamOfRecipient(message.recipient).name],
              [operator |-> "topic", operand |-> message.topic, negated |-> FALSE] >>
      [] RecipientType(message.recipient) = "PERSONAL" ->
           << [operator |-> "dm", negated |-> FALSE,
               operand |-> PersonalTypeId(message.recipient)] >>
      [] RecipientType(message.recipient) = "DIRECT_MESSAGE_GROUP" ->
           << [operator |-> "dm", negated |-> FALSE,
               operand |-> DirectMessageGroupUserIds(message.recipient)] >>

\* mutant: the fallback narrow returned without asking whether it defines a
\* conversation
UpdateNarrowTerms_AlwaysFallBack(terms, accessible) ==
    LET with_operator_terms == SelectSeq(terms, LAMBDA t : t.operator = "with")
    IN IF Len(with_operator_terms) > 1
       THEN RaiseWith(InvalidOperatorCombinationError("Duplicate 'with' operators."), 0)
       ELSE IF Len(with_operator_terms) = 0 THEN ReturnNarrow(terms, 0)
       ELSE LET with_term == with_operator_terms[1]
                rest == ListRemove(terms, with_term)
            IN IF ~WithOperandIsInt(with_term.operand)
               THEN RaiseWith(BadNarrowOperatorError("Invalid 'with' operator"), 0)
               ELSE IF ~AccessMessage(WithOperandValue(with_term.operand), accessible)
               THEN ReturnNarrow(rest, 1)
               ELSE ReturnNarrow(
                        ConversationTerms(Row(WithOperandValue(with_term.operand)))
                        \o SelectSeq(rest, LAMBDA t : t.operator \notin
                               {"stream", "channel", "topic", "dm", "pm-with"}), 1)

\* mutant: the duplicate check made after the lookup
UpdateNarrowTerms_LateDuplicateCheck(terms, accessible) ==
    LET with_operator_terms == SelectSeq(terms, LAMBDA t : t.operator = "with")
    IN IF Len(with_operator_terms) = 0 THEN ReturnNarrow(terms, 0)
       ELSE IF ~WithOperandIsInt(with_operator_terms[1].operand)
       THEN RaiseWith(BadNarrowOperatorError("Invalid 'with' operator"), 0)
       ELSE IF Len(with_operator_terms) > 1
       THEN RaiseWith(InvalidOperatorCombinationError("Duplicate 'with' operators."), 1)
       ELSE ReturnNarrow(ListRemove(terms, with_operator_terms[1]), 1)

\* update_narrow_terms_containing_with_operator for a narrow that is not None;
\* lookups counts the calls of access_message
UpdateNarrowTermsContainingWithOperator(terms, accessible) ==
    LET with_operator_terms == SelectSeq(terms, LAMBDA t : t.operator = "with")
    IN IF Len(with_operator_terms) > 1
       THEN RaiseWith(InvalidOperatorCombinationError("Duplicate 'with' operators."), 0)
       ELSE IF Len(with_operator_terms) = 0 THEN ReturnNarrow(terms, 0)
       ELSE LET with_term == with_operator_terms[1]
                rest == ListRemove(terms, with_term)
            IN IF ~WithOperandIsInt(with_term.operand)
               THEN RaiseWith(BadNarrowOperatorError("Invalid 'with' operator"), 0)
               ELSE IF ~AccessMessage(WithOperandValue(with_term.operand), accessible)
               THEN IF CanNarrowDefineConversation(rest)
                    THEN ReturnNarrow(rest, 1)
                    ELSE RaiseWith(BadNarrowOperatorError("Invalid 'with' operator"), 1)
               ELSE ReturnNarrow(
                        ConversationTerms(Row(WithOperandValue(with_term.operand)))
                        \o SelectSeq(rest, LAMBDA t : t.operator \notin
                               {"stream", "channel", "topic", "dm", "pm-with"}), 1)

(***************************************************************************)
(* ok_to_include_history and find_first_unread_anchor                      *)
(***************************************************************************)
channel_operators == {"channel", "stream"}

channels_operators == {"channels", "streams"}

\* can_access_stream_history_by_name: the channels of the realm whose history
\* the requester may read
CanAccessStreamHistoryByName(operand) ==
    /\ ChannelExists(operand)
    /\ \/ ~ChannelByOperand(operand).invite_only
       \/ <<Requester, ChannelByOperand(operand).recipient>> \in Subscriptions

\* narrow: None, or a list of terms
NoNarrow == [given |-> FALSE, terms |-> <<>>]

NarrowOf(terms) == [given |-> TRUE, terms |-> terms]

\* the first loop of ok_to_include_history from term i on
RECURSIVE HistoryByChannelTerms(_, _, _)
HistoryByChannelTerms(terms, i, history) ==
    IF i > Len(terms) THEN history
    ELSE LET term == terms[i]
         IN IF term.operator \in channel_operators /\ ~term.negated
            THEN HistoryByChannelTerms(terms, i + 1,
                                       CanAccessStreamHistoryByName(term.operand))
            ELSE IF /\ term.operator \in channels_operators
                    /\ term.operand = "public"
                    /\ ~term.negated
                    /\ RequesterCanAccessPublicStreams
            THEN HistoryByChannelTerms(terms, i + 1, TRUE)
            ELSE HistoryByChannelTerms(terms, i + 1, history)

\* the second loop: any is term but is:resolved switches history off
HistoryByIsTerms(terms, history) ==
    IF \E i \in DOMAIN terms : terms[i].operator = "is" /\ terms[i].operand # "resolved"
    THEN FALSE
    ELSE history

\* mutant: the second loop left out
OkToIncludeHistory_NoIsLoop(nrw) ==
    IF ~nrw.given THEN FALSE ELSE HistoryByChannelTerms(nrw.terms, 1, FALSE)

\* mutant: history granted by any channel term, negated or not
OkToIncludeHistory_AnyChannelTerm(nrw) ==
    /\ nrw.given
    /\ \E i \in DOMAIN nrw.terms :
          /\ nrw.terms[i].operator \in channel_operators
          /\ CanAccessStreamHistoryByName(nrw.terms[i].operand)
    /\ HistoryByIsTerms(nrw.terms, TRUE)

\* ok_to_include_history for an authenticated requester (is_web_public_query
\* False)
OkToIncludeHistory(nrw) ==
    IF ~nrw.given THEN FALSE
    ELSE HistoryByIsTerms(nrw.terms, HistoryByChannelTerms(nrw.terms, 1, FALSE))

\* add_narrow_conditions(query, narrow) where narrow may be None
AddNarrowConditionsOrNone(query, nrw, has_mutes, pgroonga) ==
    IF ~nrw.given
    THEN LoopState(NewBuilder(query, has_mutes, pgroonga), <<>>, FALSE)
    ELSE AddNarrowConditions(query, nrw.terms, has_mutes, pgroonga)

\* mutant: the first unread row, muted or not
FirstUnreadRow_Unmuted(b, given, has_mutes) ==
    LET unread == {i \in b.query : ~FlagSet(Row(i), "read")}
    IN IF unread # {} THEN MinOf(unread) ELSE LARGER_THAN_MAX_MESSAGE_ID

\* the query find_first_unread_anchor executes over the compiled narrow b
\* (the mute conditions are those of a narrow naming no channel):
\* unread rows, without the muted ones unless the narrow is a DM narrow; the
\* first row by id, or LARGER_THAN_MAX_MESSAGE_ID when there is none
FirstUnreadRow(b, given, has_mutes) ==
    LET is_dm_narrow == given /\ b.is_dm_narrow
        unread == {i \in b.query :
                      /\ ~FlagSet(Row(i), "read")
                      /\ (~is_dm_narrow /\ HasMutingConditions(has_mutes))
                         => MutingConditions(Row(i), has_mutes)}
    IN IF unread # {} THEN MinOf(unread) ELSE LARGER_THAN_MAX_MESSAGE_ID

\* find_first_unread_anchor for an authenticated requester: the narrow is
\* compiled again over the per-user base query
FindFirstUnreadAnchor(nrw, has_mutes, pgroonga) ==
    CHOOSE a \in {FirstUnreadRow(b, nrw.given, has_mutes) :
                     b \in {AddNarrowConditionsOrNone(GetBaseQueryForSearch(TRUE), nrw,
                                                      has_mutes, pgroonga).builder}} : TRUE

\* mutant: the queries run whether or not the narrow compiled
CompileOutcome_Ignored(b) == "narrowed"

\* where fetch_messages goes after add_narrow_conditions: on, or out with the
\* error raised
CompileOutcome(b) == IF b.raised # NoError THEN "raised" ELSE "narrowed"

(***************************************************************************)
(* The state machines: fetch_messages, parse_anchor_value and             *)
(* add_narrow_conditions                                                   *)
(***************************************************************************)
\* The anchors tried: the two ends, every stored id and its two neighbours.
Anchors == {0, LARGER_THAN_MAX_MESSAGE_ID, LARGER_THAN_MAX_MESSAGE_ID + 1}
           \cup Ids \cup {i - 1 : i \in Ids} \cup {i + 1 : i \in Ids}

Floors == {0} \cup Ids

\* client_requested_message_ids: None, or the ids asked for
NoMessageIds == [given |-> FALSE, ids |-> {}]

MessageIdList(ids) == [given |-> TRUE, ids |-> ids]

InitFetch ==
    /\ pc = "fetch"
    /\ matching \in SUBSET Ids
    /\ first_visible_message_id \in Floors
    /\ \/ /\ client_requested_message_ids = NoMessageIds
          /\ anchor \in Anchors
          /\ num_before \in 0..MaxNum
          /\ num_after \in 0..MaxNum
          /\ include_anchor \in BOOLEAN
       \/ /\ client_requested_message_ids \in {MessageIdList(ids) : ids \in SUBSET Ids}
          /\ anchor = 0
          /\ num_before = 0
          /\ num_after = 0
          /\ include_anchor = FALSE
    /\ rows = <<>>
    /\ fetched = NoResult
    \* nothing parsed, nothing compiled
    /\ anchor_val = NoneVal
    /\ use_first_unread_anchor = FALSE
    /\ parsed = NotParsed
    /\ base = {}
    /\ narrow = <<>>
    /\ builder = NewBuilder({}, FALSE, FALSE)
    /\ search_operands = <<>>
    /\ is_search = FALSE
    \* no permalink pass run
    /\ request_narrow = <<>>
    /\ can_access = FALSE
    /\ rewritten = NotRewritten
    \* no fetch request
    /\ fetch_narrow = NoNarrow
    /\ include_history = FALSE
    /\ queries = <<>>
    /\ request_anchor = [given |-> FALSE, value |-> 0]
    /\ fetched_anchor = [given |-> FALSE, value |-> 0]

\* fetch_messages on the anchor/window path
FetchMessages ==
    /\ pc = "fetch"
    /\ ~client_requested_message_ids.given
    /\ LET left == AnchoredToLeft(anchor)
           right == AnchoredToRight(anchor)
           na == EffectiveNumAfter(anchor, num_after)
           limited == LimitQueryToRange(matching, num_before, na, anchor,
                                        include_anchor, left, right,
                                        first_visible_message_id)
           executed == OrderByAsc(limited)
       IN /\ rows' = executed
          /\ fetched' = PostProcessLimitedQuery(executed, num_before, na, anchor,
                                                left, right,
                                                first_visible_message_id)
    /\ pc' = "fetched"
    /\ UNCHANGED <<matching, anchor, num_before, num_after, include_anchor,
                   first_visible_message_id, client_requested_message_ids>>
    /\ UNCHANGED anchorVars
    /\ UNCHANGED narrowVars
    /\ UNCHANGED withVars
    /\ UNCHANGED requestVars

\* every order in which storage may hand back the rows of a query that has no
\* ORDER BY
StorageOrders(S) ==
    {s \in [1..Cardinality(S) -> S] : \A i, j \in 1..Cardinality(S) : s[i] = s[j] => i = j}

\* fetch_messages on the explicit message-id-list path: the query is filtered
\* to the ids asked for and executed as it is; the rows are only cut at the
\* visibility floor
FetchMessageIds ==
    /\ pc = "fetch"
    /\ client_requested_message_ids.given
    /\ \E executed \in StorageOrders(matching \cap client_requested_message_ids.ids) :
          /\ rows' = executed
          /\ fetched' = [NoResult EXCEPT
                           !.rows = VisibleRows(executed, first_visible_message_id)]
    /\ pc' = "listed"
    /\ UNCHANGED <<matching, anchor, num_before, num_after, include_anchor,
                   first_visible_message_id, client_requested_message_ids>>
    /\ UNCHANGED anchorVars
    /\ UNCHANGED narrowVars
    /\ UNCHANGED withVars
    /\ UNCHANGED requestVars

NextFetch == FetchMessages \/ FetchMessageIds

RECURSIVE StringsUpTo(_)
StringsUpTo(n) ==
    IF n = 0 THEN {<<>>}
    ELSE LET shorter == StringsUpTo(n - 1)
         IN shorter \cup {Append(s, c) : s \in shorter, c \in Alphabet}

AnchorVals == {NoneVal, Oldest, Newest, FirstUnread} \cup StringsUpTo(MaxLen)

InitAnchor ==
    /\ pc = "parse"
    /\ anchor_val \in AnchorVals
    /\ use_first_unread_anchor \in BOOLEAN
    /\ parsed = NotParsed
    \* nothing fetched, nothing compiled
    /\ matching = {}
    /\ anchor = 0
    /\ num_before = 0
    /\ num_after = 0
    /\ include_anchor = FALSE
    /\ first_visible_message_id = 0
    /\ rows = <<>>
    /\ fetched = NoResult
    /\ client_requested_message_ids = NoMessageIds
    /\ base = {}
    /\ narrow = <<>>
    /\ builder = NewBuilder({}, FALSE, FALSE)
    /\ search_operands = <<>>
    /\ is_search = FALSE
    \* no permalink pass run
    /\ request_narrow = <<>>
    /\ can_access = FALSE
    /\ rewritten = NotRewritten
    \* no fetch request
    /\ fetch_narrow = NoNarrow
    /\ include_history = FALSE
    /\ queries = <<>>
    /\ request_anchor = [given |-> FALSE, value |-> 0]
    /\ fetched_anchor = [given |-> FALSE, value |-> 0]

ParseAnchor ==
    /\ pc = "parse"
    /\ parsed' = ParseAnchorValue(anchor_val, use_first_unread_anchor)
    /\ pc' = "parsed"
    /\ UNCHANGED <<anchor_val, use_first_unread_anchor>>
    /\ UNCHANGED fetchVars
    /\ UNCHANGED narrowVars
    /\ UNCHANGED withVars
    /\ UNCHANGED requestVars

CurrentLoopState == LoopState(builder, search_operands, is_search)

InitNarrow ==
    /\ pc = "compile"
    /\ base = GetBaseQueryForSearch(TRUE)
    /\ narrow = <<>>
    /\ \E has_mutes \in BOOLEAN, pgroonga \in BOOLEAN :
           builder = NewBuilder(base, has_mutes, pgroonga)
    /\ search_operands = <<>>
    /\ is_search = FALSE
    \* nothing fetched, nothing parsed
    /\ matching = {}
    /\ anchor = 0
    /\ num_before = 0
    /\ num_after = 0
    /\ include_anchor = FALSE
    /\ first_visible_message_id = 0
    /\ rows = <<>>
    /\ fetched = NoResult
    /\ client_requested_message_ids = NoMessageIds
    /\ anchor_val = NoneVal
    /\ use_first_unread_anchor = FALSE
    /\ parsed = NotParsed
    \* no permalink pass run
    /\ request_narrow = <<>>
    /\ can_access = FALSE
    /\ rewritten = NotRewritten
    \* no fetch request
    /\ fetch_narrow = NoNarrow
    /\ include_history = FALSE
    /\ queries = <<>>
    /\ request_anchor = [given |-> FALSE, value |-> 0]
    /\ fetched_anchor = [given |-> FALSE, value |-> 0]

\* the loop takes the next term of the narrow
CompileTerm(term) ==
    /\ pc = "compile"
    /\ Len(narrow) < MaxTerms
    /\ LET st == LoopStep(CurrentLoopState, term)
       IN /\ builder' = st.builder
          /\ search_operands' = st.search_operands
          /\ is_search' = st.is_search
          /\ pc' = IF st.builder.raised # NoError THEN "raised" ELSE "compile"
    /\ narrow' = Append(narrow, term)
    /\ UNCHANGED base
    /\ UNCHANGED fetchVars
    /\ UNCHANGED anchorVars
    /\ UNCHANGED withVars
    /\ UNCHANGED requestVars

\* the narrow is exhausted: the search term is added and the result returned
FinishNarrow ==
    /\ pc = "compile"
    /\ LET st == AfterLoop(CurrentLoopState)
       IN /\ builder' = st.builder
          /\ search_operands' = st.search_operands
          /\ is_search' = st.is_search
    /\ pc' = "compiled"
    /\ UNCHANGED <<base, narrow>>
    /\ UNCHANGED fetchVars
    /\ UNCHANGED anchorVars
    /\ UNCHANGED withVars
    /\ UNCHANGED requestVars

NextNarrow == (\E term \in Terms : CompileTerm(term)) \/ FinishNarrow


\* the narrows handed to the permalink pass: with terms for a channel message
\* (1), 1:1 messages received (5) and sent (6), a message to self (7), a group
\* message (8), no message (99) and a non-numeric operand, among conversation
\* terms and others
WithTermShapes ==
    { Term("with", "1", FALSE), Term("with", "5", FALSE), Term("with", "6", FALSE),
      Term("with", "7", FALSE), Term("with", "8", FALSE), Term("with", "99", FALSE),
      Term("with", "abc", FALSE),
      Term("channel", "priv", FALSE), Term("stream", "web", FALSE),
      Term("topic", "t2", FALSE), Term("topic", "t1", TRUE),
      Term("dm", "u3", FALSE), Term("pm-with", "u2", FALSE), Term("pm_with", "u2", FALSE),
      Term("dm-including", "u2", FALSE), Term("channels", "public", FALSE),
      Term("sender", "u2", FALSE), Term("is", "dm", FALSE) }

RECURSIVE NarrowsUpTo(_)
NarrowsUpTo(n) ==
    IF n = 0 THEN {<<>>}
    ELSE LET shorter == NarrowsUpTo(n - 1)
         IN shorter \cup {Append(ts, t) : ts \in shorter, t \in WithTermShapes}

InitWith ==
    /\ pc = "with"
    /\ request_narrow \in NarrowsUpTo(MaxWithTerms)
    /\ can_access \in BOOLEAN
    /\ rewritten = NotRewritten
    \* nothing fetched, nothing parsed, nothing compiled
    /\ matching = {}
    /\ anchor = 0
    /\ num_before = 0
    /\ num_after = 0
    /\ include_anchor = FALSE
    /\ first_visible_message_id = 0
    /\ rows = <<>>
    /\ fetched = NoResult
    /\ client_requested_message_ids = NoMessageIds
    /\ anchor_val = NoneVal
    /\ use_first_unread_anchor = FALSE
    /\ parsed = NotParsed
    /\ base = {}
    /\ narrow = <<>>
    /\ builder = NewBuilder({}, FALSE, FALSE)
    /\ search_operands = <<>>
    /\ is_search = FALSE
    \* no fetch request
    /\ fetch_narrow = NoNarrow
    /\ include_history = FALSE
    /\ queries = <<>>
    /\ request_anchor = [given |-> FALSE, value |-> 0]
    /\ fetched_anchor = [given |-> FALSE, value |-> 0]

UpdateNarrowTerms ==
    /\ pc = "with"
    /\ rewritten' = UpdateNarrowTermsContainingWithOperator(request_narrow, can_access)
    /\ pc' = "rewritten"
    /\ UNCHANGED <<request_narrow, can_access>>
    /\ UNCHANGED fetchVars
    /\ UNCHANGED anchorVars
    /\ UNCHANGED narrowVars
    /\ UNCHANGED requestVars

\* the terms of the fetch requests: channel and channels terms with and
\* without history access, is terms, terms that fail to compile, and others
RequestTerms ==
    { Term("channel", "pub", FALSE), Term("channel", "pub", TRUE),
      Term("channel", "priv", FALSE),
      Term("channel", "left", FALSE), Term("channel", "left", TRUE),
      Term("channel", "nochan", FALSE), Term("stream", "web", FALSE),
      Term("channels", "public", FALSE), Term("channels", "public", TRUE),
      Term("channels", "web-public", FALSE),
      Term("is", "resolved", FALSE), Term("is", "resolved", TRUE),
      Term("is", "starred", FALSE), Term("is", "starred", TRUE),
      Term("is", "dm", FALSE),
      Term("topic", "t1", FALSE), Term("topic", "t1", TRUE),
      Term("sender", "nobody", FALSE), Term("id", "abc", FALSE),
      Term("has", "bogus", FALSE), Term("dm", "u2", FALSE), Term("dm", "u2", TRUE),
      Term("in", "home", FALSE), Term("search", "foo", FALSE),
      Term("bogus", "x", FALSE) }

RECURSIVE RequestNarrowsUpTo(_)
RequestNarrowsUpTo(n) ==
    IF n = 0 THEN {<<>>}
    ELSE LET shorter == RequestNarrowsUpTo(n - 1)
         IN shorter \cup {Append(ts, t) : ts \in shorter, t \in RequestTerms}

\* anchor: None (first unread), or an integer
RequestAnchors ==
    {[given |-> FALSE, value |-> 0]}
        \cup {[given |-> TRUE, value |-> a] : a \in {0, 8, LARGER_THAN_MAX_MESSAGE_ID}}

\* the message id lists and the visibility floors of the requests that
\* carry a list; 99 is no message
RequestIdLists == {{}, {2, 10, 99}, {1, 3, 15}}

RequestFloors == {0, 3}

\* the requester has mutes; the search backend is tsearch.  A request is for
\* a window around an anchor, or for a list of message ids.
InitRequest ==
    /\ pc = "request"
    /\ \/ /\ fetch_narrow \in {NoNarrow}
                   \cup {NarrowOf(ts) : ts \in RequestNarrowsUpTo(MaxRequestTerms)}
          /\ client_requested_message_ids = NoMessageIds
          /\ first_visible_message_id = 0
       \/ /\ fetch_narrow \in {NoNarrow}
                   \cup {NarrowOf(ts) : ts \in RequestNarrowsUpTo(MaxListTerms)}
          /\ client_requested_message_ids \in {MessageIdList(ids) : ids \in RequestIdLists}
          /\ first_visible_message_id \in RequestFloors
    /\ include_history = FALSE
    /\ queries = <<>>
    /\ request_anchor = [given |-> FALSE, value |-> 0]
    /\ fetched_anchor = [given |-> FALSE, value |-> 0]
    /\ builder = NewBuilder({}, TRUE, FALSE)
    \* nothing fetched, nothing parsed, nothing compiled, nothing rewritten
    /\ matching = {}
    /\ anchor = 0
    /\ num_before = 0
    /\ num_after = 0
    /\ include_anchor = FALSE
    /\ rows = <<>>
    /\ fetched = NoResult
    /\ anchor_val = NoneVal
    /\ use_first_unread_anchor = FALSE
    /\ parsed = NotParsed
    /\ base = {}
    /\ narrow = <<>>
    /\ search_operands = <<>>
    /\ is_search = FALSE
    /\ request_narrow = <<>>
    /\ can_access = FALSE
    /\ rewritten = NotRewritten

\* fetch_messages up to add_narrow_conditions: the history decision, the base
\* query, the compilation of the narrow
NarrowRequest ==
    /\ pc = "request"
    /\ LET history == OkToIncludeHistory(fetch_narrow)
           query == GetBaseQueryForSearch(~history)
           st == AddNarrowConditionsOrNone(query, fetch_narrow, builder.user_has_mutes,
                                           builder.using_pgroonga)
       IN /\ include_history' = history
          /\ base' = query
          /\ builder' = st.builder
          /\ search_operands' = st.search_operands
          /\ is_search' = st.is_search
          /\ pc' = CompileOutcome(st.builder)
    /\ UNCHANGED <<fetch_narrow, queries, request_anchor, fetched_anchor, narrow>>
    /\ UNCHANGED fetchVars
    /\ UNCHANGED anchorVars
    /\ UNCHANGED withVars

\* fetch_messages from there on, on the anchor/window path: the anchor is
\* resolved (by the first-unread query when it is None), the limited query is
\* executed and post-processed
ExecuteRequest ==
    /\ pc = "narrowed"
    /\ ~client_requested_message_ids.given
    /\ \E a \in RequestAnchors :
       \E resolved \in {IF a.given THEN a.value
                        ELSE FindFirstUnreadAnchor(fetch_narrow, builder.user_has_mutes,
                                                   builder.using_pgroonga)} :
         LET left == AnchoredToLeft(resolved)
             right == AnchoredToRight(resolved)
             na == EffectiveNumAfter(resolved, RequestWindow)
             executed == OrderByAsc(LimitQueryToRange(builder.query, RequestWindow, na,
                                                      resolved, TRUE, left, right,
                                                      first_visible_message_id))
         IN /\ request_anchor' = a
            /\ fetched_anchor' = [given |-> TRUE, value |-> resolved]
            /\ queries' = queries \o (IF a.given THEN <<>> ELSE <<"first_unread">>)
                                  \o <<"main">>
            /\ anchor' = resolved
            /\ matching' = builder.query
            /\ rows' = executed
            /\ fetched' = PostProcessLimitedQuery(executed, RequestWindow, na, resolved,
                                                  left, right, first_visible_message_id)
    /\ num_before' = RequestWindow
    /\ num_after' = RequestWindow
    /\ include_anchor' = TRUE
    /\ pc' = "answered"
    /\ UNCHANGED <<first_visible_message_id, client_requested_message_ids>>
    /\ UNCHANGED <<fetch_narrow, include_history>>
    /\ UNCHANGED anchorVars
    /\ UNCHANGED narrowVars
    /\ UNCHANGED withVars

\* fetch_messages from there on, on the message id list path: whatever the
\* anchor of the request, the query is filtered to the ids asked for and
\* executed as it is, the rows are cut at the visibility floor, and the
\* result carries no anchor
ExecuteIdListRequest ==
    /\ pc = "narrowed"
    /\ client_requested_message_ids.given
    /\ \E a \in RequestAnchors :
       \E executed \in StorageOrders(builder.query \cap client_requested_message_ids.ids) :
            /\ request_anchor' = a
            /\ fetched_anchor' = [given |-> FALSE, value |-> 0]
            /\ queries' = queries \o <<"main">>
            /\ matching' = builder.query
            /\ rows' = executed
            /\ fetched' = [NoResult EXCEPT
                             !.rows = VisibleRows(executed, first_visible_message_id)]
    /\ num_before' = RequestWindow
    /\ num_after' = RequestWindow
    /\ include_anchor' = TRUE
    /\ pc' = "answered"
    /\ UNCHANGED <<anchor, first_visible_message_id, client_requested_message_ids>>
    /\ UNCHANGED <<fetch_narrow, include_history>>
    /\ UNCHANGED anchorVars
    /\ UNCHANGED narrowVars
    /\ UNCHANGED withVars

NextRequest == NarrowRequest \/ ExecuteRequest \/ ExecuteIdListRequest

(***************************************************************************)
(* Pagination claims (SpecFetch)                                           *)
(***************************************************************************)
Fetched == pc = "fetched"

ReturnedIds == Range(fetched.rows)

\* matching rows at or above the visibility floor
VisibleMatching == {r \in matching : r >= first_visible_message_id}

OlderVisible == {r \in VisibleMatching : r < anchor}

NewerVisible == {r \in VisibleMatching : r > anchor}

\* the n members of S closest below its top / above its bottom
LargestOf(S, n) == {r \in S : Cardinality({q \in S : q > r}) < n}

SmallestOf(S, n) == {r \in S : Cardinality({q \in S : q < r}) < n}

IsAscending(s) == \A i \in 1..Len(s) : \A j \in 1..Len(s) : i < j => s[i] < s[j]

\* C5: pagination exactness.  With visibility floor 0, 0 < anchor <
\* LARGER_THAN_MAX_MESSAGE_ID, num_before > 0 and num_after > 0, the rows
\* returned are exactly the num_before matching rows closest below the anchor,
\* the anchor row if it matches, and the num_after matching rows closest above
\* it, in ascending order; ids {10,20,30,40,50}, anchor 30, 1 before and 1
\* after give <<20,30,40>> with found_anchor and neither end found.
C5_PaginationExact ==
    Fetched =>
        /\ (/\ first_visible_message_id = 0
            /\ anchor > 0
            /\ anchor < LARGER_THAN_MAX_MESSAGE_ID
            /\ num_before > 0
            /\ num_after > 0)
           => /\ ReturnedIds =
                   LargestOf({r \in matching : r < anchor}, num_before)
                   \cup {r \in matching : r = anchor}
                   \cup SmallestOf({r \in matching : r > anchor}, num_after)
              /\ IsAscending(fetched.rows)
        /\ (/\ matching = {10, 20, 30, 40, 50}
            /\ anchor = 30
            /\ num_before = 1
            /\ num_after = 1
            /\ first_visible_message_id = 0)
           => /\ fetched.rows = <<20, 30, 40>>
              /\ fetched.found_anchor
              /\ ~fetched.found_oldest
              /\ ~fetched.found_newest

C5_Witness ==
    /\ Fetched
    /\ matching = {10, 20, 30, 40, 50}
    /\ anchor = 30
    /\ num_before = 1
    /\ num_after = 1
    /\ ~include_anchor
    /\ first_visible_message_id = 0
    /\ fetched.rows = <<20, 30, 40>>

\* C6: found_oldest.  Anchored to the left it is always true; otherwise, with
\* num_before > 0, it is true exactly when fewer than num_before visible
\* matching rows lie below the anchor.
C6_FoundOldest ==
    Fetched =>
        /\ AnchoredToLeft(anchor) => fetched.found_oldest
        /\ (~AnchoredToLeft(anchor) /\ num_before > 0)
           => (fetched.found_oldest <=> Cardinality(OlderVisible) < num_before)

\* two visible older rows against five requested, a third hidden by the floor
C6_Witness ==
    /\ Fetched
    /\ num_before = 5
    /\ anchor = 40
    /\ first_visible_message_id = 20
    /\ matching = {10, 20, 30, 40}
    /\ fetched.found_oldest
    /\ fetched.rows = <<20, 30, 40>>

\* C7: found_newest is true exactly when the fetch is anchored to the right or
\* fewer than num_after visible matching rows lie above the anchor.
C7_FoundNewest ==
    Fetched =>
        (fetched.found_newest <=>
            (AnchoredToRight(anchor) \/ Cardinality(NewerVisible) < num_after))

\* C8: right-anchored degeneration.  With anchor >= LARGER_THAN_MAX_MESSAGE_ID
\* no after-side row is fetched, the rows returned are the num_before visible
\* matching rows with the largest ids, and found_newest is true.
C8_RightAnchored ==
    (Fetched /\ anchor >= LARGER_THAN_MAX_MESSAGE_ID) =>
        /\ fetched.found_newest
        /\ ~fetched.found_anchor
        /\ ReturnedIds = LargestOf(VisibleMatching, num_before)
        /\ IsAscending(fetched.rows)
        /\ Range(rows) = LargestOf(matching, num_before)

C8_Witness ==
    /\ Fetched
    /\ anchor = LARGER_THAN_MAX_MESSAGE_ID
    /\ num_before = 2
    /\ num_after = 2
    /\ include_anchor
    /\ matching = {10, 20, 30}
    /\ first_visible_message_id = 0
    /\ fetched.rows = <<20, 30>>
    /\ fetched.found_newest

\* the visibility floor dropped at least one fetched row
RowsLimited == \E i \in 1..Len(rows) : rows[i] < first_visible_message_id

\* C9: history_limited = (the floor dropped a fetched row) and found_oldest; it
\* is true whenever the floor hides a matching row older than the anchor,
\* num_before > 0 and fewer than num_before older rows survive the floor.
C9_HistoryLimited ==
    Fetched =>
        /\ fetched.history_limited <=> (RowsLimited /\ fetched.found_oldest)
        /\ (/\ \E r \in matching : r < anchor /\ r < first_visible_message_id
            /\ num_before > 0
            /\ Cardinality(OlderVisible) < num_before)
           => fetched.history_limited

C9_Witness ==
    /\ Fetched
    /\ matching = {10, 20, 30, 40}
    /\ first_visible_message_id = 30
    /\ anchor = 40
    /\ num_before = 2
    /\ num_after = 1
    /\ fetched.rows = <<30, 40>>
    /\ fetched.history_limited


\* whether the window plan asks storage for the row at the anchor: both
\* sides and neither side always do, one side alone only with include_anchor
PlanFetchesAnchor ==
    LET before == NeedBeforeQuery(num_before, AnchoredToLeft(anchor))
        after == NeedAfterQuery(EffectiveNumAfter(anchor, num_after),
                                AnchoredToRight(anchor))
    IN (before <=> after) \/ include_anchor

\* C11: found_anchor is true exactly when a row whose id equals the anchor is
\* among the rows returned, under every window plan and for every anchor;
\* that is, exactly when the anchor is a visible matching row, the fetch is
\* not anchored to the right, and the plan fetches the anchor row.
C11_FoundAnchor ==
    Fetched =>
        /\ fetched.found_anchor <=> anchor \in ReturnedIds
        /\ fetched.found_anchor <=>
              /\ anchor \in VisibleMatching
              /\ ~AnchoredToRight(anchor)
              /\ PlanFetchesAnchor

\* a before-only window with include_anchor that finds its anchor
C11_Witness ==
    /\ Fetched
    /\ matching = {10, 20, 30}
    /\ anchor = 30
    /\ num_before = 1
    /\ num_after = 0
    /\ include_anchor
    /\ first_visible_message_id = 0
    /\ fetched.found_anchor
    /\ fetched.rows = <<20, 30>>

\* C12: the rows of every result of fetch_messages are in strictly
\* ascending id order, on the anchor/window path and on the message-id-list
\* path.
C12_RowsAscending ==
    pc \in {"fetched", "listed"} => IsAscending(fetched.rows)

\* only the after fetch is needed: num_after > 0, not anchored to the right,
\* and num_before = 0 or anchor = 0
AfterOnlyPlan ==
    /\ Fetched
    /\ NeedAfterQuery(EffectiveNumAfter(anchor, num_after), AnchoredToRight(anchor))
    /\ ~NeedBeforeQuery(num_before, AnchoredToLeft(anchor))

\* C23: whenever only the after fetch is needed, every fetched row has an id
\* of at least max(anchor + (0 if include_anchor else 1),
\* first_visible_message_id), the rows are in ascending id order, and at most
\* num_after + (1 if include_anchor else 0) rows are fetched.
C23_AfterOnly ==
    AfterOnlyPlan =>
        /\ \A i \in 1..Len(rows) :
              rows[i] >= Max(anchor + BoolInt(~include_anchor), first_visible_message_id)
        /\ IsAscending(rows)
        /\ Len(rows) <= num_after + BoolInt(include_anchor)

\* C26: whenever include_anchor is false, the row whose id equals the anchor
\* is not among the rows returned, under every window plan, the plan that
\* fetches both sides included.
C26_IncludeAnchor ==
    (Fetched /\ ~include_anchor) => anchor \notin ReturnedIds

\* C27: for every anchor, visibility floor, include_anchor and set of matching
\* rows, the window fetch returns at most num_before rows below the anchor, at
\* most one row at the anchor and at most num_after rows above the anchor;
\* with num_before = 0 or num_after = 0 no row of that side is returned.
C27_SizeBound ==
    Fetched =>
        /\ Len(SeqFilterLt(fetched.rows, anchor)) <= num_before
        /\ Len(SeqFilterEq(fetched.rows, anchor)) <= 1
        /\ Len(SeqFilterGt(fetched.rows, anchor)) <= num_after

\* the anchor is no row, so the headroom fetched a second newer row, which is
\* not returned; nothing older is asked for and nothing older is returned
C27_Witness ==
    /\ Fetched
    /\ matching = {10, 20, 40, 50}
    /\ anchor = 30
    /\ num_before = 0
    /\ num_after = 1
    /\ include_anchor
    /\ rows = <<40, 50>>
    /\ fetched.rows = <<40>>

\* the rows a side can return: as many as asked for, or all there are
SideQuota(asked, there) == IF asked <= Cardinality(there) THEN asked ELSE Cardinality(there)

\* C28: no row below first_visible_message_id is returned, on the window path
\* and on the message id list path; and on the window path the floor does not
\* make a side return fewer rows than asked for while matching rows at or
\* above the floor exist on that side.
C28_VisibilityFloor ==
    /\ (Fetched \/ pc = "listed")
       => \A i \in 1..Len(fetched.rows) : fetched.rows[i] >= first_visible_message_id
    /\ Fetched
       => /\ Len(SeqFilterLt(fetched.rows, anchor)) >= SideQuota(num_before, OlderVisible)
          /\ Len(SeqFilterGt(fetched.rows, anchor)) >= SideQuota(num_after, NewerVisible)

(***************************************************************************)
(* Anchor parsing claim (SpecAnchor)                                       *)
(***************************************************************************)
DigitChar(d) ==
    CASE d = 0 -> "0" [] d = 1 -> "1" [] d = 2 -> "2" [] d = 3 -> "3"
      [] d = 4 -> "4" [] d = 5 -> "5" [] d = 6 -> "6" [] d = 7 -> "7"
      [] d = 8 -> "8" [] d = 9 -> "9"

\* the decimal numeral of a natural number / of an integer
RECURSIVE NatNumeral(_)
NatNumeral(n) ==
    IF n < 10 THEN <<DigitChar(n)>>
    ELSE Append(NatNumeral(n \div 10), DigitChar(n % 10))

Numeral(n) == IF n < 0 THEN <<"-">> \o NatNumeral(0 - n) ELSE NatNumeral(n)

RECURSIVE Pow10(_)
Pow10(k) == IF k = 0 THEN 1 ELSE 10 * Pow10(k - 1)

Clamped(n) ==
    IF n < 0 THEN 0
    ELSE IF n > LARGER_THAN_MAX_MESSAGE_ID THEN LARGER_THAN_MAX_MESSAGE_ID
    ELSE n

HasDigit(s) == \E i \in 1..Len(s) : s[i] \in Digits

OnlyNumeralChars(s) == \A i \in 1..Len(s) : s[i] \in Digits \cup {"-"}

Keywords == {Oldest, Newest, FirstUnread}

\* C10: parse_anchor_value.  With use_first_unread_anchor the result is None;
\* otherwise None raises, "oldest" gives 0, "newest" gives
\* LARGER_THAN_MAX_MESSAGE_ID, "first_unread" gives None, the numeral of an
\* integer n gives n clamped into [0, LARGER_THAN_MAX_MESSAGE_ID], and a
\* string that is no keyword and holds no digit or a letter raises; every
\* integer returned lies in [0, LARGER_THAN_MAX_MESSAGE_ID].
C10_ParseAnchor ==
    pc = "parsed" =>
        /\ use_first_unread_anchor => parsed = ReturnNone
        /\ ~use_first_unread_anchor =>
            /\ anchor_val = NoneVal => parsed.kind = "raise"
            /\ anchor_val = Oldest => parsed = ReturnInt(0)
            /\ anchor_val = Newest => parsed = ReturnInt(LARGER_THAN_MAX_MESSAGE_ID)
            /\ anchor_val = FirstUnread => parsed = ReturnNone
            /\ (anchor_val \notin Keywords \cup {NoneVal} /\ OnlyNumeralChars(anchor_val))
               => \A n \in (1 - Pow10(Len(anchor_val)))..(Pow10(Len(anchor_val)) - 1) :
                     anchor_val = Numeral(n) => parsed = ReturnInt(Clamped(n))
            /\ (/\ anchor_val \notin Keywords \cup {NoneVal}
                /\ (~HasDigit(anchor_val) \/ \E i \in 1..Len(anchor_val) : anchor_val[i] = "x"))
               => parsed.kind = "raise"
        /\ parsed.kind = "int" =>
            (parsed.val >= 0 /\ parsed.val <= LARGER_THAN_MAX_MESSAGE_ID)

\* a numeral above the sentinel is clamped to it
C10_Witness ==
    /\ pc = "parsed"
    /\ ~use_first_unread_anchor
    /\ anchor_val = <<"9", "9", "5">>
    /\ parsed = ReturnInt(LARGER_THAN_MAX_MESSAGE_ID)


(***************************************************************************)
(* Narrow compilation claims (SpecNarrow)                                  *)
(***************************************************************************)
ChannelScopedTerm(t) ==
    t.operator \in {"channel", "stream", "channels", "streams", "topic"}

IsDmTerm(t) == t.operator = "is" /\ t.operand \in {"dm", "private"}

DmScopedTerm(t) ==
    \/ t.operator \in {"dm", "pm-with", "pm_with", "dm-including",
                       "group-pm-with", "group_pm_with"}
    \/ IsDmTerm(t)

ChannelDmPair(s, t) ==
    \/ ChannelScopedTerm(s) /\ DmScopedTerm(t)
    \/ DmScopedTerm(s) /\ ChannelScopedTerm(t)

Markers == <<builder.is_channel_narrow, builder.is_dm_narrow>>

CombinationDesc == "No message can be both a channel message and direct message"

CombinationRaised == builder.raised # NoError /\ builder.raised.desc = CombinationDesc

\* the rows a narrow compiles to over the base query, under this builder's
\* settings
Compiled(terms) ==
    AddNarrowConditions(base, terms, builder.user_has_mutes, builder.using_pgroonga)

WithoutLast(terms) == SubSeq(terms, 1, Len(terms) - 1)

C2_MutualExclusion ==
    /\ (\E i, j \in DOMAIN narrow :
            /\ ChannelScopedTerm(narrow[i]) /\ ~narrow[i].negated
            /\ DmScopedTerm(narrow[j]) /\ ~narrow[j].negated)
       => /\ pc = "raised"
          /\ builder.raised.class = "InvalidOperatorCombinationError"
    /\ pc = "compiled" => ~(builder.is_channel_narrow /\ builder.is_dm_narrow)

\* what C3 says of every pair: a channel/DM pair with at least one negated
\* term raises no combination error
C3_Pair ==
    (/\ Len(narrow) = 2
     /\ ChannelDmPair(narrow[1], narrow[2])
     /\ narrow[1].negated \/ narrow[2].negated)
    => ~CombinationRaised

\* C3 as stated: compiling a negated channel-scoped or DM-scoped term
\* (is:dm included) changes neither marker and raises no combination error,
\* and a channel/DM pair with a negated term raises no combination error.
C3_Original ==
    /\ [][narrow' # narrow
            => LET t == narrow'[Len(narrow')]
               IN (t.negated /\ (ChannelScopedTerm(t) \/ DmScopedTerm(t)))
                  => /\ Markers' = Markers
                     /\ ~CombinationRaised']_vars
    /\ []C3_Pair

\* C3 (amended): a negated channel, channels, topic, dm, dm-including or
\* group-pm-with term changes neither marker and raises no combination
\* error; a negated is:dm term sets the channel-narrow marker, leaves the
\* DM-narrow marker alone, and raises the combination error exactly when the
\* DM-narrow marker was already set; a channel/DM pair with a negated term
\* raises no combination error.
C3_NegatedScoping ==
    /\ [][narrow' # narrow
            => LET t == narrow'[Len(narrow')]
               IN /\ (/\ t.negated
                      /\ ChannelScopedTerm(t) \/ DmScopedTerm(t)
                      /\ ~IsDmTerm(t))
                     => /\ Markers' = Markers
                        /\ ~CombinationRaised'
                  /\ (t.negated /\ IsDmTerm(t))
                     => /\ builder'.is_channel_narrow
                        /\ builder'.is_dm_narrow = builder.is_dm_narrow
                        /\ CombinationRaised' <=> builder.is_dm_narrow]_vars
    /\ []C3_Pair

\* a negated is:dm term compiled after a dm term: the check trips
C3_Witness ==
    /\ narrow = <<Term("dm", "u2", FALSE), Term("is", "dm", TRUE)>>
    /\ pc = "raised"
    /\ CombinationRaised
    /\ Markers = <<TRUE, TRUE>>

\* C4 (uniform negation): a narrow of one negated term compiles to exactly
\* the rows of the base query that the same term, not negated, does not
\* select.
C4_NegationUniform ==
    (pc = "compiled" /\ Len(narrow) = 1 /\ narrow[1].negated)
    => LET plain == Compiled(<<[narrow[1] EXCEPT !.negated = FALSE]>>).builder
       IN plain.raised = NoError => builder.query = base \ plain.query

(***************************************************************************)
(* Permalink resolution claims (SpecWith)                                  *)
(***************************************************************************)
Rewritten == pc = "rewritten"

WithTermsOf(terms) == SelectSeq(terms, LAMBDA t : t.operator = "with")

WithoutWithTerms(terms) == SelectSeq(terms, LAMBDA t : t.operator # "with")

\* the narrow holds one with term, its operand numeric
SingleNumericWith ==
    /\ Len(WithTermsOf(request_narrow)) = 1
    /\ WithOperandIsInt(WithTermsOf(request_narrow)[1].operand)

WithMessageId == WithOperandValue(WithTermsOf(request_narrow)[1].operand)

\* C13 (permalink resolution, success): with one with term whose message is
\* accessible, the narrow returned is the conversation terms of the message
\* followed by the input terms that are neither the with term nor channel-
\* or DM-scoped, in their original order.
C13_WithSuccess ==
    (/\ Rewritten
     /\ SingleNumericWith
     /\ AccessMessage(WithMessageId, can_access))
    => /\ rewritten.kind = "returned"
       /\ rewritten.narrow =
             ConversationTerms(Row(WithMessageId))
             \o SelectSeq(request_narrow,
                          LAMBDA t : /\ t.operator # "with"
                                     /\ ~ChannelScopedTerm(t)
                                     /\ ~DmScopedTerm(t))

RemainingHasDmTerm ==
    \E i \in DOMAIN request_narrow : request_narrow[i].operator \in {"dm", "pm-with"}

RemainingHasChannelAndTopic ==
    /\ \E i \in DOMAIN request_narrow : request_narrow[i].operator \in {"channel", "stream"}
    /\ \E i \in DOMAIN request_narrow : request_narrow[i].operator = "topic"

\* C14 (permalink resolution, failure): with one with term whose message is
\* inaccessible or does not exist, the narrow returned is the input without
\* its with term, the other terms unchanged and in order, if those contain
\* a dm (or pm-with) term or both a channel (or stream) term and a topic
\* term; otherwise BadNarrowOperatorError is raised.
C14_WithFallback ==
    (/\ Rewritten
     /\ SingleNumericWith
     /\ ~AccessMessage(WithMessageId, can_access))
    => IF RemainingHasDmTerm \/ RemainingHasChannelAndTopic
       THEN /\ rewritten.kind = "returned"
            /\ rewritten.narrow = WithoutWithTerms(request_narrow)
       ELSE /\ rewritten.kind = "raised"
            /\ rewritten.raised.class = "BadNarrowOperatorError"

\* the fallback taken for a message that does not exist
C14_Witness ==
    /\ Rewritten
    /\ request_narrow = <<Term("sender", "u2", FALSE), Term("with", "99", FALSE),
                          Term("dm", "u3", FALSE)>>
    /\ can_access
    /\ rewritten.kind = "returned"
    /\ rewritten.narrow = <<Term("sender", "u2", FALSE), Term("dm", "u3", FALSE)>>

\* C15: two or more with terms raise InvalidOperatorCombinationError before
\* any message lookup; a narrow without a with term is returned unchanged;
\* one with term whose operand is not numeric raises BadNarrowOperatorError.
C15_WithShape ==
    Rewritten =>
        /\ Len(WithTermsOf(request_narrow)) > 1
           => /\ rewritten.kind = "raised"
              /\ rewritten.raised.class = "InvalidOperatorCombinationError"
              /\ rewritten.lookups = 0
        /\ Len(WithTermsOf(request_narrow)) = 0
           => /\ rewritten.kind = "returned"
              /\ rewritten.narrow = request_narrow
              /\ rewritten.lookups = 0
        /\ (/\ Len(WithTermsOf(request_narrow)) = 1
            /\ ~WithOperandIsInt(WithTermsOf(request_narrow)[1].operand))
           => /\ rewritten.kind = "raised"
              /\ rewritten.raised.class = "BadNarrowOperatorError"

\* two with terms, the first of them resolvable
C15_Witness ==
    /\ Rewritten
    /\ request_narrow = <<Term("with", "1", FALSE), Term("topic", "t2", FALSE),
                          Term("with", "5", FALSE)>>
    /\ can_access
    /\ rewritten.raised.class = "InvalidOperatorCombinationError"
    /\ rewritten.lookups = 0

(***************************************************************************)
(* History policy and fetch request claims (SpecRequest)                   *)
(***************************************************************************)
\* fetch_messages is past ok_to_include_history
HistoryDecided == pc \in {"narrowed", "raised", "answered"}

\* a non-negated channel term whose channel grants history access, or a
\* non-negated channels:public term while the user may access public channels
GrantsHistory(term) ==
    \/ /\ term.operator \in channel_operators
       /\ ~term.negated
       /\ CanAccessStreamHistoryByName(term.operand)
    \/ /\ term.operator \in channels_operators
       /\ term.operand = "public"
       /\ ~term.negated
       /\ RequesterCanAccessPublicStreams

HasFlagIsTerm(terms) ==
    \E i \in DOMAIN terms : terms[i].operator = "is" /\ terms[i].operand # "resolved"

\* C16: ok_to_include_history answers true only if the narrow holds a
\* non-negated channel term whose channel grants the user history access, or
\* a non-negated channels:public term while the user may access public
\* channels; it answers false whenever the narrow holds an is term, negated
\* or not, whose operand is not resolved, and whenever the narrow is None.
C16_HistoryPolicy ==
    HistoryDecided =>
        /\ include_history = OkToIncludeHistory(fetch_narrow)
        /\ include_history =>
              \E i \in DOMAIN fetch_narrow.terms : GrantsHistory(fetch_narrow.terms[i])
        /\ HasFlagIsTerm(fetch_narrow.terms) => ~include_history
        /\ ~fetch_narrow.given => ~include_history

\* history was granted by the second of two channel terms, and refused to a
\* narrow whose channel term grants it but which also holds a negated
\* is:starred
C16_Witness ==
    /\ HistoryDecided
    /\ \/ /\ fetch_narrow.terms = <<Term("channel", "left", FALSE), Term("channel", "pub", FALSE)>>
          /\ include_history
       \/ /\ fetch_narrow.terms = <<Term("channel", "pub", FALSE), Term("is", "starred", TRUE)>>
          /\ ~include_history

\* the narrow compiled and its rows are those of builder.query
NarrowCompiled == pc \in {"narrowed", "answered"}

\* the row is a message of a channel whose history the user may access
InHistoryAccessibleChannel(m) ==
    \E st \in Streams : /\ st.realm = RequesterRealm
                        /\ st.recipient = m.recipient
                        /\ CanAccessStreamHistoryByName(st.name)

FailingTerm(t) ==
    \/ t.operator = "bogus"
    \/ t.operator = "has" /\ t.operand \notin {"attachment", "image", "link", "reaction"}
    \/ t.operator \in channel_operators /\ ~ChannelExists(t.operand)
    \/ t.operator = "sender" /\ ~UserExists(t.operand)
    \/ t.operator = "id" /\ ~IdOperandIsDigit(t.operand)

\* two non-negated terms, one channel-scoped and one DM-scoped
FailingCombination(terms) ==
    \E i, j \in DOMAIN terms :
        /\ ~terms[i].negated
        /\ ~terms[j].negated
        /\ ChannelScopedTerm(terms[i])
        /\ DmScopedTerm(terms[j])

\* C20: if compiling a term of the narrow fails (unknown operator, unknown
\* closed-set operand, unresolvable channel or user, invalid id, channel/DM
\* combination), fetch_messages raises; and once it has raised, neither the
\* first-unread query nor the main query has been executed and no rows are
\* returned.
C20_NoPartialApplication ==
    /\ (/\ HistoryDecided
        /\ \/ \E i \in DOMAIN fetch_narrow.terms : FailingTerm(fetch_narrow.terms[i])
           \/ FailingCombination(fetch_narrow.terms))
       => builder.raised # NoError
    /\ builder.raised # NoError
       => /\ pc = "raised"
          /\ queries = <<>>
          /\ rows = <<>>
          /\ fetched = NoResult

\* the third term failed after two terms had been compiled
C20_Witness ==
    /\ pc = "raised"
    /\ fetch_narrow.terms = <<Term("channel", "pub", FALSE), Term("topic", "t1", FALSE),
                              Term("bogus", "x", FALSE)>>
    /\ builder.raised # NoError
    /\ queries = <<>>

(***************************************************************************)
(* Mute symmetry and term order claims (SpecNarrow)                        *)
(***************************************************************************)
\* the narrow is:muted alone has been compiled
IsMutedCompiled == pc = "compiled" /\ narrow = <<Term("is", "muted", FALSE)>>

\* the rows in:home and its negation select over the same base query
InHomeRows == Compiled(<<Term("in", "home", FALSE)>>).builder.query

NegatedInHomeRows == Compiled(<<Term("in", "home", TRUE)>>).builder.query

\* C18 as stated: the rows of is:muted and the rows of the negated in:home
\* predicate are disjoint and together cover the relation, with or without
\* mutes.
C18_Original ==
    IsMutedCompiled =>
        /\ builder.query \cap NegatedInHomeRows = {}
        /\ builder.query \cup NegatedInHomeRows = base

\* C18: the rows of is:muted and the rows of in:home are disjoint and
\* together cover the relation, so is:muted selects exactly the rows the
\* negated in:home predicate selects; this holds with mutes (is:muted is the
\* negation of the mute conditions) and without (is:muted selects nothing,
\* in:home everything).
C18_MuteSymmetry ==
    IsMutedCompiled =>
        /\ builder.raised = NoError
        /\ builder.query \cap InHomeRows = {}
        /\ builder.query \cup InHomeRows = base
        /\ builder.query = NegatedInHomeRows
        /\ ~builder.user_has_mutes => builder.query = {} /\ InHomeRows = base

\* is:muted compiled over a relation with muted and unmuted topics
C18_Witness ==
    /\ IsMutedCompiled
    /\ builder.user_has_mutes
    /\ builder.query # {}
    /\ builder.query # base
    /\ \E i \in builder.query : <<Row(i).recipient, Row(i).topic>> \in MutedTopics(TRUE)
    /\ \E i \in base \ builder.query : Row(i).recipient = "s_pub"

\* the narrow with its terms in the order p, a permutation of its positions
Permuted(terms, p) == [i \in DOMAIN terms |-> terms[p[i]]]

\* C19: for every narrow that compiles and every permutation of its terms,
\* the permuted narrow compiles too and selects exactly the same rows over
\* the same base query.
C19_TermOrder ==
    (pc = "compiled" /\ builder.raised = NoError) =>
        \A p \in Permutations(DOMAIN narrow) :
            /\ Compiled(Permuted(narrow, p)).builder.raised = NoError
            /\ Compiled(Permuted(narrow, p)).builder.query = builder.query

(***************************************************************************)
(* Search claim (SpecNarrow)                                               *)
(***************************************************************************)
\* a narrow with search terms was compiled on the tsearch backend
TsearchCompiled ==
    /\ pc = "compiled"
    /\ builder.raised = NoError
    /\ ~builder.using_pgroonga
    /\ search_operands # <<>>

\* C21: on the stemmed backend, every row a search selects satisfies the
\* stemmed match for the whole operand and, for each quoted sub-phrase of
\* the operand, holds that phrase in its raw content, or in its topic when
\* the row is a channel message.
C21_SearchPhrases ==
    TsearchCompiled =>
        \A i \in builder.query :
            /\ Lexemes(JoinedText(search_operands)) \subseteq Row(i).words
            /\ \A ph \in QuotedPhrases(JoinedText(search_operands)) :
                  \/ ILike(Row(i).content, ph)
                  \/ ILike(Row(i).topic_text, ph) /\ IsChannelMessage(Row(i))

\* the operand "bar baz" in quotes selected a row by its content and a row
\* by its topic, and left out rows that hold both words apart
C21_Witness ==
    /\ TsearchCompiled
    /\ narrow = <<Term("search", "\"bar baz\"", FALSE)>>
    /\ 1 \in builder.query
    /\ 15 \in builder.query
    /\ ILike(Row(15).topic_text, <<"bar", SP, "baz">>)
    /\ 3 \in base \ builder.query
    /\ {"bar", "baz"} \subseteq Row(3).words

(***************************************************************************)
(* Base relation claim (SpecRequest)                                       *)
(***************************************************************************)
\* fetch_messages built the base query with the per-user join
PerUserBase == HistoryDecided /\ ~include_history

\* the channel of a recipient is public, or opened to the requester by a
\* group, or the requester is subscribed to the recipient
ChannelReadable(r) ==
    \/ \E st \in Streams :
          /\ st.recipient = r
          /\ \/ /\ ~st.invite_only
                /\ ~st.is_in_zephyr_realm
                /\ RequesterCanAccessPublicStreams
             \/ /\ ~RequesterIsGuest
                /\ \/ st.can_subscribe_group \in RequesterRecursiveGroups
                   \/ st.can_add_subscribers_group \in RequesterRecursiveGroups
    \/ <<Requester, r>> \in Subscriptions

\* C22: the base query built with the per-user join holds a message only
\* if the user has a per-user row for it and the message is a direct
\* message, or its recipient is a public non-zephyr channel while the user
\* may access public channels, or (non-guests only) a group the user
\* recursively belongs to grants subscribe or add-subscriber access to the
\* channel, or the user has an active subscription to the recipient; and it
\* holds every such message.  A leftover per-user row for a channel meeting
\* none of these is not in it.
C22_PerUserBase ==
    PerUserBase =>
        base = {i \in MessageIds :
                   /\ Row(i).um
                   /\ \/ Row(i).recipient \notin StreamRecipients
                      \/ ChannelReadable(Row(i).recipient)}

\* the per-user base holds a message of a private channel a group opens to
\* the requester, and not the message of the channel the requester left,
\* for which a per-user row remains
C22_Witness ==
    /\ PerUserBase
    /\ 14 \in base
    /\ Row(14).recipient = "s_team"
    /\ Row(13).um
    /\ Row(13).recipient = "s_left"
    /\ 13 \notin base

(***************************************************************************)
(* First-unread anchor claim (SpecRequest)                                 *)
(***************************************************************************)
\* the request had anchor None and was answered
FirstUnreadResolved == pc = "answered" /\ queries = <<"first_unread", "main">>

\* the user's unread rows that match the compiled narrow, without the rows
\* of muted channels and topics unless the narrow set the DM-narrow marker
UnreadCandidates ==
    {i \in builder.query :
        /\ Row(i).um
        /\ i \in GetBaseQueryForSearch(TRUE)
        /\ "read" \notin Row(i).flags
        /\ \/ builder.is_dm_narrow
           \/ /\ Row(i).recipient \notin MutedStreamRecipients(builder.user_has_mutes)
              /\ <<Row(i).recipient, Row(i).topic>> \notin MutedTopics(builder.user_has_mutes)}

IdListAnswered == pc = "answered" /\ client_requested_message_ids.given

\* C25: a request that carries a message id list runs the main query only,
\* with or without an anchor in the request; it returns exactly the rows of
\* the narrow whose id is in the list and not below the visibility floor,
\* each once, with found_anchor, found_newest, found_oldest and
\* history_limited all false and no anchor.
C25_IdListPath ==
    IdListAnswered
        => /\ queries = <<"main">>
           /\ Range(fetched.rows)
                  = {i \in builder.query \cap client_requested_message_ids.ids :
                         i >= first_visible_message_id}
           /\ Len(fetched.rows) = Cardinality(Range(fetched.rows))
           /\ ~fetched.found_anchor
           /\ ~fetched.found_newest
           /\ ~fetched.found_oldest
           /\ ~fetched.history_limited
           /\ ~fetched_anchor.given

\* no anchor in the request; of the ids asked for, 1 is below the floor, 3 is
\* at the floor and returned, 15 is returned too
C25_Witness ==
    /\ IdListAnswered
    /\ ~request_anchor.given
    /\ first_visible_message_id = 3
    /\ client_requested_message_ids.ids = {1, 3, 15}
    /\ 1 \in builder.query
    /\ 3 \in Range(fetched.rows)
    /\ Range(fetched.rows) # builder.query \cap client_requested_message_ids.ids

(***************************************************************************)
(* Permalink claims (SpecWith)                                             *)
(***************************************************************************)
\* the rows the conversation terms of message m select when fetch_messages
\* compiles them for the requester
ConversationRows(m) ==
    LET nrw == NarrowOf(ConversationTerms(Row(m)))
        need_user_message == ~OkToIncludeHistory(nrw)
    IN AddNarrowConditionsOrNone(GetBaseQueryForSearch(need_user_message), nrw,
                                 FALSE, FALSE).builder.query

\* C29: after a successful resolution of the with term for message M, the
\* conversation terms placed first in the narrow select M when compiled for
\* the requester: for a channel message, a group message, and a 1:1 message
\* the requester sent or received.
C29_PermalinkTarget ==
    (/\ Rewritten
     /\ SingleNumericWith
     /\ AccessMessage(WithMessageId, can_access))
    => /\ rewritten.kind = "returned"
       /\ SubSeq(rewritten.narrow, 1, Len(ConversationTerms(Row(WithMessageId))))
              = ConversationTerms(Row(WithMessageId))
       /\ WithMessageId \in ConversationRows(WithMessageId)

\* C30: when the target of the with term is inaccessible, the narrow without
\* the with term is returned only if it holds a dm term that is not negated,
\* or a channel term and a topic term neither of which is negated.
C30_PositiveFallback ==
    (/\ Rewritten
     /\ SingleNumericWith
     /\ ~AccessMessage(WithMessageId, can_access)
     /\ rewritten.kind = "returned")
    => \/ \E i \in DOMAIN request_narrow :
             /\ request_narrow[i].operator \in {"dm", "pm-with"}
             /\ ~request_narrow[i].negated
       \/ /\ \E i \in DOMAIN request_narrow :
                /\ request_narrow[i].operator \in {"channel", "stream"}
                /\ ~request_narrow[i].negated
          /\ \E i \in DOMAIN request_narrow :
                /\ request_narrow[i].operator = "topic"
                /\ ~request_narrow[i].negated

(***************************************************************************)
(* Specifications                                                          *)
(***************************************************************************)
SpecFetch == InitFetch /\ [][NextFetch]_vars

SpecAnchor == InitAnchor /\ [][ParseAnchor]_vars

SpecNarrow == InitNarrow /\ [][NextNarrow]_vars

SpecWith == InitWith /\ [][UpdateNarrowTerms]_vars

SpecRequest == InitRequest /\ [][NextRequest]_vars

====
